---- MODULE Spec2Model ----
(***************************************************************************)
(* State-machine model of the query_builder package (src/src/query_builder) *)
(* Texts are sequences of atoms: an atom is a run of characters without a  *)
(* blank, the blank itself is the atom " ", and the placeholder is the     *)
(* atom "?".  Python values are tagged tuples: <<"none">>, <<"int", d>>,   *)
(* <<"float", d>>, <<"enum", n>> and <<"str">> \o text.                      *)
(***************************************************************************)
EXTENDS Integers, Sequences, FiniteSets, TLC

VARIABLES
    \* ---- one WhereGroup object (where.py)
    conditions,          \* WhereGroup.conditions : sequence of Where records
    params,              \* WhereGroup.params
    logical_operator,    \* WhereGroup.logical_operator
    wg_last,             \* outcome of the last WhereGroup.add call
    \* ---- one builder object (base.py and the statement builders)
    kind,                \* concrete class: "select", "insert", "update", "delete"
    _table,              \* BuilderBase._table
    _columns,            \* BuilderBase._columns
    _params,             \* ParameterManager._params
    _cached_query,       \* ParameterManager._cached_query
    _cached_params,      \* ParameterManager._cached_params
    _state_changed,      \* BuilderBase._state_changed (the dirty flag)
    _query_type,         \* BuilderBase._query_type
    _on_conflict,        \* InsertQueryBuilder._on_conflict
    _joins,              \* SelectQueryBuilder._joins
    clause_attrs,        \* the instance attributes reset_query_clause() creates
    clause_builder,      \* the attribute self.clause_builder
    last,                \* outcome of the last call on the builder
    prev,                \* outcome of the call before it
    \* ---- one QueryClauseBuilder object of its own (query_clause.py)
    qcb,                 \* its instance attributes
    qcb_last,            \* outcome of the last call on it
    \* ---- one TableCreator object (table_creator.py)
    tc_name,             \* TableCreator.table_name
    tc_columns,          \* TableCreator.columns: name and definition, in dict order
    tc_primary_key,      \* TableCreator.primary_key
    tc_unique,           \* TableCreator.unique_constraints
    tc_foreign_keys,     \* TableCreator.foreign_keys
    tc_metadata,         \* TableCreator._metadata
    tc_last,             \* outcome of the last call on it
    \* ---- the one BaseErrorHandler and the strategy classes (error_handler)
    eh_strategies,       \* BaseErrorHandler.strategies
    eh_enabled,          \* _enabled of each strategy class
    eh_priority,         \* _priority of each strategy class
    eh_re_raise,         \* BaseErrorHandler.config.re_raise
    eh_env,              \* DEFAULT_TO_RERAISE_EXCEPTIONS of the process
    eh_last,             \* outcome of the last call on the handler
    \* ---- the registry of the error_handler decorator (strategy.py)
    d_registry,          \* STRATEGY_REGISTRY
    d_last               \* outcome of the last decorated call

wgVars == <<conditions, params, logical_operator, wg_last>>
bVars == <<kind, _table, _columns, _params, _cached_query, _cached_params,
           _state_changed, _query_type, _on_conflict, _joins, clause_attrs,
           clause_builder>>
qVars == <<qcb, qcb_last>>
tVars == <<tc_name, tc_columns, tc_primary_key, tc_unique, tc_foreign_keys,
           tc_metadata, tc_last>>
eVars == <<eh_strategies, eh_enabled, eh_priority, eh_re_raise, eh_env, eh_last>>
dVars == <<d_registry, d_last>>
vars == <<wgVars, bVars, last, prev, qVars, tVars, eVars, dVars>>

-----------------------------------------------------------------------------
(* Bounds *)
MaxConds == 2
MaxParams == 2
MaxClauseItems == 2
MaxLimit == 10
MaxForeignKeys == 1
MaxRetries == 2

-----------------------------------------------------------------------------
(* Python values *)
NoneV == <<"none">>
IntV(d) == <<"int", d>>
FloatV(d) == <<"float", d>>
EnumV(n) == <<"enum", n>>
StrV(t) == <<"str">> \o t
Absent == <<"absent">>

IsStr(v) == v[1] = "str"
TextOf(v) == Tail(v)

\* Atoms made of decimal digits only.
DigitAtoms == {"0", "5", "18"}

-----------------------------------------------------------------------------
(* Text helpers: the str methods the code uses, on atom sequences *)

RECURSIVE Count(_, _)
Count(t, a) ==
    IF t = <<>> THEN 0
    ELSE (IF Head(t) = a THEN 1 ELSE 0) + Count(Tail(t), a)

Contains(t, a) == \E i \in 1..Len(t) : t[i] = a

\* Index of the first occurrence of atom a in t, 0 when there is none.
RECURSIVE Find(_, _)
Find(t, a) ==
    IF t = <<>> THEN 0
    ELSE IF Head(t) = a THEN 1
    ELSE LET r == Find(Tail(t), a) IN IF r = 0 THEN 0 ELSE r + 1

\* str.split(sep, maxsplit): the list of parts; maxsplit = -1 is unlimited.
RECURSIVE Split(_, _, _)
Split(t, sep, maxsplit) ==
    LET i == Find(t, sep) IN
    IF maxsplit = 0 \/ i = 0 THEN <<t>>
    ELSE <<SubSeq(t, 1, i - 1)>>
         \o Split(SubSeq(t, i + 1, Len(t)), sep,
                  IF maxsplit < 0 THEN maxsplit ELSE maxsplit - 1)

\* str.strip(chars) for a one-character chars argument.
RECURSIVE LStrip(_, _)
LStrip(t, a) ==
    IF t # <<>> /\ Head(t) = a THEN LStrip(Tail(t), a) ELSE t

RECURSIVE RStrip(_, _)
RStrip(t, a) ==
    IF t # <<>> /\ t[Len(t)] = a THEN RStrip(SubSeq(t, 1, Len(t) - 1), a) ELSE t

Strip(t, a) == RStrip(LStrip(t, a), a)

\* sep.join(parts)
RECURSIVE Join(_, _)
Join(sep, parts) ==
    IF parts = <<>> THEN <<>>
    ELSE IF Len(parts) = 1 THEN parts[1]
    ELSE parts[1] \o sep \o Join(sep, Tail(parts))

\* str.upper(), atom by atom, on the atoms the calls use.
Upper(t) ==
    [i \in 1..Len(t) |->
        CASE t[i] = "inner" -> "INNER"
          [] t[i] = "left" -> "LEFT"
          [] OTHER -> t[i]]

\* str(value).isnumeric()
IsNumeric(v) ==
    \/ v[1] = "int" /\ v[2] \in DigitAtoms
    \/ IsStr(v) /\ Len(v) = 2 /\ v[2] \in DigitAtoms

\* int(value), for a value on which IsNumeric holds
ToInt(v) == IntV(v[2])

\* Truth value of a Python value (None, "", 0 are false).
Truthy(v) ==
    /\ v # NoneV
    /\ v # StrV(<<>>)
    /\ v # IntV("0")

\* The text an f-string puts for a value.
Format(v) ==
    IF IsStr(v) THEN TextOf(v)
    ELSE IF v = NoneV THEN <<"None">>
    ELSE IF v[1] = "bytes" THEN <<"b'", v[2], "'">>
    ELSE <<v[2]>>

-----------------------------------------------------------------------------
(* where.py: Where *)

Where(column, operator, param, lop) ==
    [column |-> column, operator |-> operator, param |-> param,
     logical_operator |-> lop]

\* Mutant of Where_build: the condition without operator and parameter is
\* rendered as an equality.
Where_build_never_null(w) ==
    IF Truthy(w.operator)
    THEN Format(w.logical_operator) \o <<" ">> \o w.column \o <<" ">>
         \o Format(w.operator) \o <<" ", "?">>
    ELSE Format(w.logical_operator) \o <<" ">> \o w.column \o <<" ", "=", " ", "?">>

\* Where.build
Where_build(w) ==
    IF Truthy(w.operator)
    THEN Format(w.logical_operator) \o <<" ">> \o w.column \o <<" ">>
         \o Format(w.operator) \o <<" ", "?">>
    ELSE IF w.param = NoneV
    THEN Format(w.logical_operator) \o <<" ">> \o w.column \o <<" ", "IS", " ", "NULL">>
    ELSE Format(w.logical_operator) \o <<" ">> \o w.column \o <<" ", "=", " ", "?">>

-----------------------------------------------------------------------------
(* where.py: WhereGroup *)

Raise(exc) == [ok |-> FALSE, exc |-> exc]

\* The parsing part of WhereGroup.add (lines 75-101): the column, operator and
\* parameter the call denotes, or the exception it raises.  args is the tuple
\* of positional arguments (args[1] is a text), kw the keyword arguments.
add_parse(args, kw) ==
    LET n == Len(args)
        a0 == args[1]
        p3 == Split(a0, " ", 2)
        pall == Split(a0, " ", -1)
    IN
    IF Contains(a0, "?") /\ n = 1 /\ kw.param = Absent
    THEN Raise("ValueError")
    ELSE IF Contains(a0, " ") /\ kw.param # Absent
    THEN IF Len(p3) # 3 THEN Raise("ValueError")
         ELSE [ok |-> TRUE, column |-> p3[1], operator |-> StrV(p3[2]),
               param |-> kw.param]
    ELSE IF n = 1 /\ Contains(a0, " ")
    THEN IF Len(p3) # 3 THEN Raise("ValueError")
         ELSE [ok |-> TRUE, column |-> p3[1], operator |-> StrV(p3[2]),
               param |-> StrV(Strip(Strip(p3[3], "'"), "\""))]
    ELSE IF n = 1
    THEN [ok |-> TRUE, column |-> a0, operator |-> NoneV, param |-> NoneV]
    ELSE IF n = 2
    THEN IF Contains(a0, " ") /\ Len(pall) # 3 THEN Raise("ValueError")
         ELSE [ok |-> TRUE,
               column |-> IF Contains(a0, " ") THEN pall[1] ELSE a0,
               operator |-> IF kw.operator = Absent THEN NoneV ELSE kw.operator,
               param |-> args[2]]
    ELSE IF n = 3
    THEN [ok |-> TRUE, column |-> a0, operator |-> args[2], param |-> args[3]]
    ELSE Raise("ValueError")

\* Mutant of valid_logical_operator: every override passes.
any_logical_operator(lop) == TRUE

\* The test of the logical operator in WhereGroup.add (line 72)
valid_logical_operator(lop) == lop \in {StrV(<<"AND">>), StrV(<<"OR">>)}

\* WhereGroup.add as a function of the group's lists: the new lists, or the
\* exception with the lists untouched.
add(conds, ps, args, kw) ==
    LET lop == IF kw.logical_operator = Absent THEN StrV(<<"AND">>)
               ELSE kw.logical_operator
        parsed == add_parse(args, kw)
        param == IF IsNumeric(parsed.param) THEN ToInt(parsed.param)
                 ELSE parsed.param
    IN
    IF ~valid_logical_operator(lop)
    THEN [ok |-> FALSE, exc |-> "ValueError", conditions |-> conds, params |-> ps]
    ELSE IF ~parsed.ok
    THEN [ok |-> FALSE, exc |-> parsed.exc, conditions |-> conds, params |-> ps]
    ELSE [ok |-> TRUE, exc |-> "none",
          conditions |-> Append(conds, Where(parsed.column, parsed.operator, param, lop)),
          params |-> IF param # NoneV THEN Append(ps, param) ELSE ps]

\* WhereGroup.get_params
get_params(ps) == ps

\* Mutant of WhereGroup_build: the first fragment keeps its logical operator.
WhereGroup_build_keep_first(conds) ==
    IF conds = <<>> THEN <<>>
    ELSE <<"(">> \o Join(<<" ">>, [i \in 1..Len(conds) |-> Where_build(conds[i])])
         \o <<")">>

\* WhereGroup.build
WhereGroup_build(conds) ==
    IF conds = <<>> THEN <<>>
    ELSE LET where_clause == Join(<<" ">>, [i \in 1..Len(conds) |-> Where_build(conds[i])])
         IN <<"(">> \o Split(Strip(where_clause, " "), " ", 1)[2] \o <<")">>

-----------------------------------------------------------------------------
(* Inputs of WhereGroup.add *)
Arg0s ==
    { <<"age">>,
      <<"age", " ", ">", " ", "18">>,
      <<"age", " ", ">", " ", "?">>,
      <<"name", " ", "=", " ", "'", "x", "'">>,
      <<"a", " ", "b">> }
ParamArgs == {NoneV, StrV(<<"5">>), StrV(<<"x">>)}
OperatorArgs == {NoneV, StrV(<<>>), StrV(<<">">>)}
LogicalArgs == {Absent, StrV(<<"OR">>), StrV(<<"XOR">>)}
KwParams == {Absent, NoneV, IntV("18")}
KwOperators == {Absent, StrV(<<">">>)}
Kwargs == [logical_operator : LogicalArgs, param : KwParams, operator : KwOperators]
AddArgs ==
    {<<a>> : a \in Arg0s}
    \cup {<<a, p>> : a \in Arg0s, p \in ParamArgs}
    \cup {<<a, o, p>> : a \in {<<"age">>}, o \in OperatorArgs, p \in ParamArgs}
    \cup {<<a, o, p, p>> : a \in {<<"age">>}, o \in {NoneV}, p \in {NoneV}}


-----------------------------------------------------------------------------
(* The WhereGroup under test *)

WhereInit ==
    /\ conditions = <<>>
    /\ params = <<>>
    /\ logical_operator \in {StrV(<<"AND">>), StrV(<<"OR">>)}
    /\ wg_last = [op |-> "init", ok |-> TRUE, exc |-> "none", lop |-> Absent]

\* One call group.add(*args, **kw)
WhereAdd ==
    \E args \in AddArgs, kw \in Kwargs :
        LET r == add(conditions, params, args, kw) IN
        /\ Len(conditions) < MaxConds
        /\ conditions' = r.conditions
        /\ params' = r.params
        /\ wg_last' = [op |-> "add", ok |-> r.ok, exc |-> r.exc,
                       lop |-> kw.logical_operator]
        /\ UNCHANGED logical_operator

\* Number of placeholders in the group's rendering
Placeholders == Count(WhereGroup_build(conditions), "?")

\* The values bound by the conditions that emit a placeholder, in order
RECURSIVE BoundValues(_)
BoundValues(conds) ==
    IF conds = <<>> THEN <<>>
    ELSE (IF Contains(Where_build(Head(conds)), "?") THEN <<Head(conds).param>> ELSE <<>>)
         \o BoundValues(Tail(conds))


-----------------------------------------------------------------------------
(* base.py: identifiers, results *)

Letters ==
    {"a", "b", "c", "d", "e", "f", "g", "h", "i", "j", "k", "l", "m", "n", "o",
     "p", "q", "r", "s", "t", "u", "v", "w", "x", "y", "z", "A", "B", "C", "D",
     "E", "F", "G", "H", "I", "J", "K", "L", "M", "N", "O", "P", "Q", "R", "S",
     "T", "U", "V", "W", "X", "Y", "Z"}
Digits == {"0", "1", "2", "3", "4", "5", "6", "7", "8", "9"}

FirstChars == Letters \cup {"_"}
WordChars == Letters \cup Digits \cup {"_"}

\* TABLE_NAME_REGEX.match(name) on a name given character by character.
\* re's "$" matches at the end and also before a newline that ends the string.
TABLE_NAME_REGEX(name) ==
    LET body == IF Len(name) >= 2 /\ name[Len(name)] = "\n"
                THEN SubSeq(name, 1, Len(name) - 1) ELSE name
    IN /\ Len(body) >= 1
       /\ body[1] \in FirstChars
       /\ \A i \in 2..Len(body) : body[i] \in WordChars

ListV(seq) == <<"list", seq>>
\* A WhereGroup held in an attribute that may also hold None
GroupV(g) == <<"group", g>>
PairV(query, ps) == <<"pair", query, ps>>

\* What a call on the builder gave: a value, or an exception with its message
\* and its __cause__; rendered tells whether the call ran _build, arg is the
\* argument of the call (kept for table).
Returned(op, value, rendered) ==
    [op |-> op, arg |-> NoneV, ok |-> TRUE, exc |-> "none", msg |-> "none",
     cause |-> "none", rendered |-> rendered, value |-> value]
Raised(op, exc, msg, cause, rendered) ==
    [op |-> op, arg |-> NoneV, ok |-> FALSE, exc |-> exc, msg |-> msg,
     cause |-> cause, rendered |-> rendered, value |-> NoneV]

-----------------------------------------------------------------------------
(* query_clause.py: QueryClauseBuilder.  An object's clause attributes exist *)
(* only once reset_query_clause() has run on it (the class has no __init__). *)

NoClauseAttrs ==
    [set |-> FALSE, where_conditions |-> NoneV, order_by |-> <<>>,
     limit |-> NoneV, offset |-> NoneV, group_by |-> <<>>, having |-> NoneV]

\* QueryClauseBuilder.reset_query_clause
reset_query_clause ==
    [set |-> TRUE, where_conditions |-> NoneV, order_by |-> <<>>,
     limit |-> NoneV, offset |-> NoneV, group_by |-> <<>>, having |-> NoneV]

\* Mutant of clause_order: the LIMIT segment comes first.
clause_order_limit_first(w, g, o, l, f) == l \o w \o g \o o \o f

\* The list "clauses" of build_query_clauses: the segments in the order of the
\* appends (each of w, g, o, l, f is an empty list or a list of one segment)
clause_order(w, g, o, l, f) == w \o g \o o \o l \o f

\* QueryClauseBuilder.build_query_clauses on an object with attributes a
QueryClauseBuilder_build(a) ==
    IF ~a.set THEN Raise("AttributeError")
    ELSE
    LET wc == IF a.where_conditions = NoneV THEN <<>> ELSE a.where_conditions[2]
        where_clause ==
            IF wc = <<>> THEN <<>>
            ELSE << <<"WHERE", " ">>
                    \o Join(<<" ", "AND", " ">>,
                            [i \in 1..Len(wc) |-> WhereGroup_build(wc[i].conditions)]) >>
        group_clause ==
            IF a.group_by = <<>> THEN <<>>
            ELSE << <<"GROUP", " ", "BY", " ">> \o Join(<<",", " ">>, a.group_by)
                    \o (IF a.having = NoneV THEN <<>>
                        ELSE <<" ", "HAVING", " ">>
                             \o WhereGroup_build(a.having[2].conditions)) >>
        order_clause ==
            IF a.order_by = <<>> THEN <<>>
            ELSE << <<"ORDER", " ", "BY", " ">>
                    \o Join(<<",", " ">>,
                            [i \in 1..Len(a.order_by) |->
                                a.order_by[i][1] \o <<" ">> \o a.order_by[i][2]]) >>
        limit_clause ==
            IF a.limit = NoneV THEN <<>>
            ELSE << <<"LIMIT", " ">> \o Format(a.limit) >>
        offset_clause ==
            IF a.offset = NoneV THEN <<>>
            ELSE << <<"OFFSET", " ">> \o Format(a.offset) >>
    IN [ok |-> TRUE, exc |-> "none",
        text |-> Join(<<" ">>, clause_order(where_clause, group_clause, order_clause,
                                            limit_clause, offset_clause))]

\* self.clause_builder.build_query_clauses() as the statement builders call it
clause_fragment(cb) ==
    IF cb.ref # "object" THEN [ok |-> FALSE, exc |-> "AttributeError", text |-> <<>>]
    ELSE LET r == QueryClauseBuilder_build(cb.attrs) IN
         IF r.ok THEN r ELSE [ok |-> FALSE, exc |-> r.exc, text |-> <<>>]

\* The integers the clause calls use, as digit atoms: NatAtoms[i] is 5 * (i - 1)
NatAtoms == <<"0", "5", "10", "15", "20">>
NatOf(v) == 5 * ((CHOOSE i \in 1..Len(NatAtoms) : NatAtoms[i] = v[2]) - 1)
\* int + int
IntAdd(x, y) == IntV(NatAtoms[(NatOf(x) + NatOf(y)) \div 5 + 1])

AddOk(a) == [ok |-> TRUE, exc |-> "none", attrs |-> a]
AddRaised(exc, a) == [ok |-> FALSE, exc |-> exc, attrs |-> a]

\* QueryClauseBuilder.add(type_, *args) on an object with attributes a:
\* is_condition tells whether args[0] is a Where or a WhereGroup.  When it is,
\* only the kinds "where" and "having" are looked at and any other kind falls
\* out of the inner if/elif without an else.
QueryClauseBuilder_add(a, type_, is_condition, args) ==
    IF is_condition
    THEN IF type_ = "where"
         THEN IF ~a.set \/ a.where_conditions = NoneV
              THEN AddRaised("AttributeError", a)
              ELSE AddOk([a EXCEPT !.where_conditions =
                                       ListV(Append(a.where_conditions[2], args[1]))])
         ELSE IF type_ = "having"
         THEN AddOk([a EXCEPT !.having = GroupV(args[1])])
         ELSE AddOk(a)
    ELSE IF type_ = "limit"
    THEN IF ~a.set THEN AddRaised("AttributeError", a)
         ELSE IF a.limit = NoneV THEN AddRaised("TypeError", a)
         ELSE AddOk([a EXCEPT !.limit = IntAdd(a.limit, args[1])])
    ELSE IF type_ = "order_by"
    THEN IF ~a.set THEN AddRaised("AttributeError", a)
         ELSE AddOk([a EXCEPT !.order_by = Append(a.order_by, args)])
    ELSE IF type_ = "group_by"
    THEN IF ~a.set THEN AddRaised("AttributeError", a)
         ELSE AddOk([a EXCEPT !.group_by = a.group_by \o args])
    ELSE AddRaised("ValueError", a)

-----------------------------------------------------------------------------
(* parameter_manager.py: ParameterManager *)

\* Mutant of cache: the memo keeps the text but not the parameters.
cache_without_params(query, ps) == <<StrV(query), ListV(<<>>)>>

\* Mutant of cache: a memo pair that exists is not replaced.
cache_first_only(query, ps) ==
    IF _cached_query # NoneV THEN <<_cached_query, _cached_params>>
    ELSE <<StrV(query), ListV(ps)>>

\* ParameterManager.cache: the memo pair <<_cached_query, _cached_params>>
cache(query, ps) == <<StrV(query), ListV(ps)>>

\* ParameterManager.get_cached
get_cached(cq, cp) ==
    IF cq # NoneV THEN PairV(TextOf(cq), cp[2]) ELSE NoneV

\* Mutant of generate_placeholders: one placeholder whatever the parameters.
generate_one_placeholder(ps) == <<"?">>

\* ParameterManager.generate_placeholders
generate_placeholders(ps) ==
    Join(<<",", " ">>, [i \in 1..Len(ps) |-> <<"?">>])


-----------------------------------------------------------------------------
(* The statement-specific renders: the text, or the exception raised *)

Rendered(text) == [ok |-> TRUE, exc |-> "none", text |-> text]

\* ", ".join(self._columns): str.join raises TypeError on an item that is no str
join_columns(cols) ==
    IF \E i \in 1..Len(cols) : ~IsStr(cols[i])
    THEN [ok |-> FALSE, exc |-> "TypeError", text |-> <<>>]
    ELSE Rendered(Join(<<",", " ">>, [i \in 1..Len(cols) |-> TextOf(cols[i])]))
RenderFailed(exc) == [ok |-> FALSE, exc |-> exc, text |-> <<>>]

\* InsertQueryBuilder._build
Insert_build ==
    LET conflict_clause == IF Truthy(_on_conflict)
                           THEN <<" ", "OR", " ">> \o Format(_on_conflict) ELSE <<>>
        columns == join_columns(_columns)
    IN IF ~columns.ok THEN RenderFailed(columns.exc)
       ELSE Rendered(<<"INSERT">> \o conflict_clause \o <<" ", "INTO", " ">>
                     \o Format(_table) \o <<" ", "(">> \o columns.text
                     \o <<")", " ", "VALUES", " ", "(">>
                     \o generate_placeholders(_params) \o <<")">>)

\* SelectQueryBuilder._append_joins
_append_joins(query) ==
    IF _joins # NoneV /\ _joins[2] # <<>>
    THEN query \o <<" ">> \o Join(<<" ">>, _joins[2]) ELSE query

\* SelectQueryBuilder._build
Select_build ==
    LET columns == join_columns(_columns)
        c == clause_fragment(clause_builder)
    IN
    IF ~columns.ok THEN RenderFailed(columns.exc)
    ELSE IF ~c.ok THEN RenderFailed(c.exc)
    ELSE Rendered(_append_joins(<<"SELECT", " ">> \o columns.text
                                \o <<" ", "FROM", " ">> \o Format(_table) \o <<" ">>
                                \o c.text))

\* UpdateQueryBuilder._build
Update_build ==
    LET c == clause_fragment(clause_builder) IN
    IF ~c.ok THEN RenderFailed(c.exc)
    ELSE Rendered(<<"UPDATE", " ">> \o Format(_table) \o <<" ", "SET", " ">>
                  \o Join(<<",", " ">>,
                          [i \in 1..Len(_columns) |->
                              Format(_columns[i]) \o <<" ", "=", " ", "?">>])
                  \o <<" ">> \o c.text)

\* DeleteQueryBuilder._build
Delete_build ==
    LET c == clause_fragment(clause_builder) IN
    IF ~c.ok THEN RenderFailed(c.exc)
    ELSE Rendered(<<"DELETE", " ", "FROM", " ">> \o Format(_table) \o <<" ">> \o c.text)

\* BuilderBase._build, dispatched on the concrete class
_build ==
    CASE kind = "insert" -> Insert_build
      [] kind = "select" -> Select_build
      [] kind = "update" -> Update_build
      [] kind = "delete" -> Delete_build

-----------------------------------------------------------------------------
(* base.py: BuilderBase *)

\* Mutant of _validate_table_name: every name passes.
_validate_nothing(name) == TRUE

\* BuilderBase._validate_table_name: TRUE when it returns, FALSE when it raises
_validate_table_name(name) == TABLE_NAME_REGEX(name)

\* Mutant of render_error: the exception of _build escapes as it is.
render_error_unwrapped(e) == Raised("build", e, "none", "none", TRUE)

\* The exception build_query_clauses raises for an exception e of _build
render_error(e) ==
    Raised("build", "QueryBuilderError", "Query building failed", e, TRUE)

\* Mutant of has_table: the build does not look at the table.
has_table_unchecked == TRUE

\* The table test of build_query_clauses: "not self._table" is false
has_table == Truthy(_table)

\* The memo test of build_query_clauses: "not self._state_changed and cached"
memo_valid == ~_state_changed /\ get_cached(_cached_query, _cached_params) # NoneV

\* The outcome of a call.  A call needs an object: none is made on a builder
\* whose constructor raised.
Ret(r) ==
    /\ last.op = "init" => last.ok
    /\ last' = r
    /\ prev' = last

\* Mutant of build_query_clauses: the dirty flag is cleared before the table
\* test and the render, so a build that fails has changed it.
build_query_clauses_clean_first ==
    LET r == _build
        memo == cache(r.text, _params)
    IN
    IF memo_valid
    THEN /\ Ret(Returned("build", get_cached(_cached_query, _cached_params), FALSE))
         /\ UNCHANGED bVars
    ELSE IF ~has_table \/ ~r.ok
    THEN /\ _state_changed' = FALSE
         /\ Ret(IF ~has_table
                THEN Raised("build", "QueryBuilderError", "No table specified",
                            "none", FALSE)
                ELSE render_error(r.exc))
         /\ UNCHANGED <<kind, _table, _columns, _params, _cached_query,
                        _cached_params, _query_type, _on_conflict, _joins,
                        clause_attrs, clause_builder>>
    ELSE /\ _cached_query' = memo[1]
         /\ _cached_params' = memo[2]
         /\ _state_changed' = FALSE
         /\ Ret(Returned("build", PairV(r.text, _params), TRUE))
         /\ UNCHANGED <<kind, _table, _columns, _params, _query_type,
                        _on_conflict, _joins, clause_attrs, clause_builder>>

\* BuilderBase.build_query_clauses
build_query_clauses ==
    LET cached == get_cached(_cached_query, _cached_params)
        r == _build
        memo == cache(r.text, _params)
    IN
    IF memo_valid
    THEN /\ Ret(Returned("build", cached, FALSE))
         /\ UNCHANGED bVars
    ELSE IF ~has_table
    THEN /\ Ret(Raised("build", "QueryBuilderError", "No table specified", "none", FALSE))
         /\ UNCHANGED bVars
    ELSE IF ~r.ok
    THEN /\ Ret(render_error(r.exc))
         /\ UNCHANGED bVars
    ELSE /\ _cached_query' = memo[1]
         /\ _cached_params' = memo[2]
         /\ Ret(Returned("build", PairV(r.text, _params), TRUE))
         /\ UNCHANGED <<kind, _table, _columns, _params, _state_changed, _query_type,
                        _on_conflict, _joins, clause_attrs, clause_builder>>

\* BuilderBase.table
table(name) ==
    IF ~_validate_table_name(name)
    THEN /\ Ret([Raised("table", "QueryBuilderError", "Invalid table name", "none", FALSE)
                    EXCEPT !.arg = StrV(name)])
         /\ UNCHANGED bVars
    ELSE /\ _table' = StrV(name)
         /\ Ret([Returned("table", NoneV, FALSE) EXCEPT !.arg = StrV(name)])
         /\ UNCHANGED <<kind, _columns, _params, _cached_query, _cached_params,
                        _state_changed, _query_type, _on_conflict, _joins,
                        clause_attrs, clause_builder>>

\* BuilderBase.where: QueryClauseBuilder.add("where", group) on the builder
\* itself, then extend(group.get_params()), then the dirty flag
where(group) ==
    IF ~clause_attrs.set \/ clause_attrs.where_conditions = NoneV
    THEN /\ Ret(Raised("where", "AttributeError", "none", "none", FALSE))
         /\ UNCHANGED bVars
    ELSE /\ clause_attrs' =
                [clause_attrs EXCEPT !.where_conditions =
                    ListV(Append(clause_attrs.where_conditions[2], group))]
         /\ _params' = _params \o get_params(group.params)
         /\ _state_changed' = TRUE
         /\ Ret(Returned("where", NoneV, FALSE))
         /\ UNCHANGED <<kind, _table, _columns, _cached_query, _cached_params,
                        _query_type, _on_conflict, _joins, clause_builder>>

\* The subclass hook _reset: the values of the fields it may assign
_reset ==
    CASE kind = "select" ->
            [table |-> _table, columns |-> <<>>, on_conflict |-> _on_conflict,
             joins |-> NoneV,
             clause_builder |-> [ref |-> "object", attrs |-> NoClauseAttrs]]
      [] kind = "insert" ->
            [table |-> NoneV, columns |-> _columns, on_conflict |-> NoneV,
             joins |-> _joins, clause_builder |-> clause_builder]
      [] OTHER ->
            [table |-> _table, columns |-> _columns, on_conflict |-> _on_conflict,
             joins |-> _joins, clause_builder |-> clause_builder]

\* BuilderBase.reset
reset ==
    LET h == _reset IN
    /\ _query_type' = NoneV
    /\ _state_changed' = FALSE
    /\ _cached_query' = NoneV
    /\ _cached_params' = NoneV
    /\ clause_attrs' = reset_query_clause
    /\ _table' = h.table
    /\ _columns' = h.columns
    /\ _on_conflict' = h.on_conflict
    /\ _joins' = h.joins
    /\ clause_builder' = h.clause_builder
    /\ Ret(Returned("reset", NoneV, FALSE))
    /\ UNCHANGED <<kind, _params>>

\* ParameterManager.add_param
add_param(value) ==
    /\ Len(_params) < MaxParams
    /\ _params' = Append(_params, value)
    /\ Ret(Returned("add_param", NoneV, FALSE))
    /\ UNCHANGED <<kind, _table, _columns, _cached_query, _cached_params,
                   _state_changed, _query_type, _on_conflict, _joins,
                   clause_attrs, clause_builder>>

\* ParameterManager.extend
extend(values) ==
    /\ Len(_params) + Len(values) <= MaxParams
    /\ _params' = _params \o values
    /\ Ret(Returned("extend", NoneV, FALSE))
    /\ UNCHANGED <<kind, _table, _columns, _cached_query, _cached_params,
                   _state_changed, _query_type, _on_conflict, _joins,
                   clause_attrs, clause_builder>>


-----------------------------------------------------------------------------
(* select.py: the clause setters and join *)

\* limit, offset, having (assign field) and group_by, order_by (extend field)
\* all go through self.clause_builder; once reset_query_clause() has run on the
\* builder, the instance attribute of the same name hides the method.
clause_setter(op, new_attrs, needs_field) ==
    IF clause_attrs.set
    THEN /\ Ret(Raised(op, "TypeError", "none", "none", FALSE))
         /\ UNCHANGED bVars
    ELSE IF clause_builder.ref # "object" \/ (needs_field /\ ~clause_builder.attrs.set)
    THEN /\ Ret(Raised(op, "AttributeError", "none", "none", FALSE))
         /\ UNCHANGED bVars
    ELSE /\ clause_builder' = [clause_builder EXCEPT !.attrs = new_attrs]
         /\ _state_changed' = TRUE
         /\ Ret(Returned(op, NoneV, FALSE))
         /\ UNCHANGED <<kind, _table, _columns, _params, _cached_query,
                        _cached_params, _query_type, _on_conflict, _joins,
                        clause_attrs>>

\* SelectQueryBuilder.limit
limit(n) ==
    /\ kind = "select"
    /\ clause_setter("limit", [clause_builder.attrs EXCEPT !.limit = n], FALSE)

\* SelectQueryBuilder.offset
offset(n) ==
    /\ kind = "select"
    /\ clause_setter("offset", [clause_builder.attrs EXCEPT !.offset = n], FALSE)

\* SelectQueryBuilder.group_by
group_by(cols) ==
    /\ kind = "select"
    /\ clause_setter("group_by",
                     [clause_builder.attrs EXCEPT !.group_by = @ \o cols], TRUE)

\* SelectQueryBuilder.having
having(condition) ==
    /\ kind = "select"
    /\ clause_setter("having", [clause_builder.attrs EXCEPT !.having = condition], FALSE)

\* SelectQueryBuilder.order_by
order_by(cols) ==
    /\ kind = "select"
    /\ clause_setter("order_by",
                     [clause_builder.attrs EXCEPT !.order_by = @ \o cols], TRUE)

\* SelectQueryBuilder.join
join(tbl, on_clause, join_type) ==
    /\ kind = "select"
    /\ IF _joins = NoneV
       THEN /\ Ret(Raised("join", "AttributeError", "none", "none", FALSE))
            /\ UNCHANGED bVars
       ELSE /\ _joins' = ListV(Append(_joins[2],
                               Upper(join_type) \o <<" ", "JOIN", " ">> \o tbl
                               \o <<" ", "ON", " ">> \o on_clause))
            /\ _state_changed' = TRUE
            /\ Ret(Returned("join", NoneV, FALSE))
            /\ UNCHANGED <<kind, _table, _columns, _params, _cached_query,
                           _cached_params, _query_type, _on_conflict,
                           clause_attrs, clause_builder>>

-----------------------------------------------------------------------------
(* insert.py: on_conflict *)

ConflictStrategy ==
    {EnumV("IGNORE"), EnumV("REPLACE"), EnumV("ROLLBACK"), EnumV("ABORT"), EnumV("FAIL")}

\* InsertQueryBuilder.on_conflict.  "action not in ConflictStrategy" for a value
\* that is no member raises TypeError or gives True (then ValueError), by the
\* version of the enum module.
on_conflict(action) ==
    /\ kind = "insert"
    /\ IF action \notin ConflictStrategy
       THEN /\ \E exc \in {"TypeError", "ValueError"} :
                   Ret(Raised("on_conflict", exc, "none", "none", FALSE))
            /\ UNCHANGED bVars
       ELSE /\ _on_conflict' = action
            /\ _state_changed' = TRUE
            /\ Ret(Returned("on_conflict", NoneV, FALSE))
            /\ UNCHANGED <<kind, _table, _columns, _params, _cached_query,
                           _cached_params, _query_type, _joins, clause_attrs,
                           clause_builder>>

-----------------------------------------------------------------------------
(* One QueryClauseBuilder used on its own *)

\* What a call on the clause builder gave
ClauseOutcome(op, type_, is_condition, ok, exc, text) ==
    [op |-> op, type_ |-> type_, is_condition |-> is_condition, ok |-> ok,
     exc |-> exc, text |-> text]

\* The sizes the lists of the clause builder may reach
ClauseFits(a) ==
    /\ a.where_conditions # NoneV => Len(a.where_conditions[2]) <= MaxClauseItems
    /\ Len(a.group_by) <= MaxClauseItems
    /\ Len(a.order_by) <= MaxClauseItems
    /\ a.limit # NoneV => NatOf(a.limit) <= MaxLimit

\* One call cb.add(type_, *args)
ClauseAddCall(type_, is_condition, args) ==
    LET r == QueryClauseBuilder_add(qcb, type_, is_condition, args) IN
    /\ (~is_condition /\ type_ = "limit" /\ qcb.limit # NoneV)
          => NatOf(qcb.limit) + NatOf(args[1]) <= MaxLimit
    /\ ClauseFits(r.attrs)
    /\ qcb' = r.attrs
    /\ qcb_last' = ClauseOutcome("add", type_, is_condition, r.ok, r.exc, <<>>)

\* One call cb.reset_query_clause()
ClauseResetCall ==
    /\ qcb' = reset_query_clause
    /\ qcb_last' = ClauseOutcome("reset", "none", FALSE, TRUE, "none", <<>>)

\* One call cb.build_query_clauses()
ClauseBuildCall ==
    LET r == QueryClauseBuilder_build(qcb) IN
    /\ qcb' = qcb
    /\ qcb_last' = ClauseOutcome("build", "none", FALSE, r.ok, r.exc,
                                 IF r.ok THEN r.text ELSE <<>>)

-----------------------------------------------------------------------------
(* table_creator.py: TableCreator *)

BoolV(b) == <<"bool", b>>
BytesV(d) == <<"bytes", d>>

LowerCase == <<"a", "b", "c", "d", "e", "f", "g", "h", "i", "j", "k", "l", "m", "n", "o", "p", "q", "r", "s", "t", "u", "v", "w", "x", "y", "z">>
UpperCase == <<"A", "B", "C", "D", "E", "F", "G", "H", "I", "J", "K", "L", "M", "N", "O", "P", "Q", "R", "S", "T", "U", "V", "W", "X", "Y", "Z">>
\* str.upper() on a name given character by character
ToUpper ==
    [c \in {LowerCase[k] : k \in 1..26} |->
        UpperCase[CHOOSE k \in 1..26 : LowerCase[k] = c]]
UpperName(name) ==
    [i \in 1..Len(name) |->
        IF name[i] \in DOMAIN ToUpper THEN ToUpper[name[i]] ELSE name[i]]

\* SQLKeywords: the keyword lists, each keyword character by character
SQLKeywords_SELECT ==
    { <<"S", "E", "L", "E", "C", "T">>,
      <<"F", "R", "O", "M">>,
      <<"W", "H", "E", "R", "E">>,
      <<"O", "R", "D", "E", "R", " ", "B", "Y">>,
      <<"L", "I", "M", "I", "T">>,
      <<"O", "F", "F", "S", "E", "T">> }
SQLKeywords_INSERT ==
    { <<"I", "N", "S", "E", "R", "T", " ", "I", "N", "T", "O">>,
      <<"V", "A", "L", "U", "E", "S">> }
SQLKeywords_UPDATE ==
    { <<"U", "P", "D", "A", "T", "E">>,
      <<"S", "E", "T">>,
      <<"W", "H", "E", "R", "E">> }
SQLKeywords_DELETE ==
    { <<"D", "E", "L", "E", "T", "E", " ", "F", "R", "O", "M">>,
      <<"W", "H", "E", "R", "E">> }
\* SQLKeywords.all_keywords
all_keywords == SQLKeywords_SELECT \cup SQLKeywords_INSERT \cup SQLKeywords_UPDATE \cup SQLKeywords_DELETE

\* The members of DataType
DataType ==
    {EnumV("TEXT"), EnumV("INTEGER"), EnumV("REAL"), EnumV("BLOB"), EnumV("NULL"),
     EnumV("TIMESTAMP")}

\* isinstance(v, cls) on the tagged values; bool is a subclass of int
IsInstance(v, cls) ==
    CASE cls = "int" -> v[1] \in {"int", "bool"}
      [] cls = "str" -> v[1] = "str"
      [] cls = "float" -> v[1] = "float"
      [] cls = "bytes" -> v[1] = "bytes"
      [] cls = "NoneType" -> v[1] = "none"
      [] cls = "DataType" -> v \in DataType

\* default_data_types of add_column: the classes of a declared type
default_data_types(data_type) ==
    CASE data_type = EnumV("INTEGER") -> {"int"}
      [] data_type = EnumV("TEXT") -> {"str"}
      [] data_type = EnumV("REAL") -> {"float"}
      [] data_type = EnumV("BLOB") -> {"bytes", "str"}
      [] data_type = EnumV("NULL") -> {"NoneType"}
      [] data_type = EnumV("TIMESTAMP") -> {"str"}

\* The test of a default that is not None (lines 89-90):
\* isinstance(default, (types, type(DataType.NULL)))
default_matches(data_type, default) ==
    \E cls \in default_data_types(data_type) \cup {"DataType"} : IsInstance(default, cls)

\* Mutant of valid_column_name: every name passes.
any_column_name(name) == TRUE

\* The name test of add_column (line 70): the pattern of TABLE_NAME_REGEX
valid_column_name(name) == TABLE_NAME_REGEX(name)

\* The keyword test of add_column (line 73)
reserved_keyword(name) == UpperName(name) \in all_keywords

HasColumn(cols, name) == \E i \in 1..Len(cols) : cols[i].name = name

\* Mutant of set_column: the definition is appended, also for a name that the
\* table holds.
set_column_appending(cols, name, definition) ==
    Append(cols, [name |-> name, definition |-> definition])

\* self.columns[name] = column_definition: a dict keeps a key that it holds
\* at its place
set_column(cols, name, definition) ==
    IF HasColumn(cols, name)
    THEN [i \in 1..Len(cols) |->
             IF cols[i].name = name THEN [name |-> name, definition |-> definition]
             ELSE cols[i]]
    ELSE Append(cols, [name |-> name, definition |-> definition])

ColumnRaised(msg, cols) == [ok |-> FALSE, exc |-> "ValueError", msg |-> msg, columns |-> cols]

\* TableCreator.add_column on the columns cols: the new columns, or the
\* exception with the columns untouched
add_column(cols, name, data_type, allow_nulls, default, override) ==
    IF HasColumn(cols, name) /\ ~override
    THEN ColumnRaised("already exists", cols)
    ELSE IF ~valid_column_name(name)
    THEN ColumnRaised("Invalid column name", cols)
    ELSE IF reserved_keyword(name)
    THEN ColumnRaised("reserved keyword", cols)
    ELSE IF data_type \notin DataType
    THEN ColumnRaised("Invalid data type", cols)
    ELSE IF default # NoneV /\ ~default_matches(data_type, default)
    THEN ColumnRaised("Default value does not match", cols)
    ELSE [ok |-> TRUE, exc |-> "none", msg |-> "none",
          columns |->
              set_column(cols, name,
                         name \o <<" ">> \o Format(data_type)
                         \o (IF ~allow_nulls THEN <<" ", "NOT", " ", "NULL">> ELSE <<>>)
                         \o (IF default # NoneV
                             THEN <<" ", "DEFAULT", " ">> \o Format(default) ELSE <<>>))]

\* "column not in self.columns" of set_primary_key and add_foreign_key is false
column_exists(cols, column) == HasColumn(cols, column)

\* What a call on the TableCreator gave, with the arguments of the call
TableOutcome(op, ok, exc, msg, name) ==
    [op |-> op, ok |-> ok, exc |-> exc, msg |-> msg, name |-> StrV(name),
     data_type |-> NoneV, allow_nulls |-> TRUE, default |-> NoneV,
     override |-> FALSE, flags |-> NoneV, value |-> NoneV]

\* One call tc.add_column(name, data_type, allow_nulls, default, override)
TcAddColumn(name, data_type, allow_nulls, default, override) ==
    LET r == add_column(tc_columns, name, data_type, allow_nulls, default, override) IN
    /\ tc_last.ok
    /\ tc_columns' = r.columns
    /\ tc_last' = [TableOutcome("add_column", r.ok, r.exc, r.msg, name)
                       EXCEPT !.data_type = data_type, !.allow_nulls = allow_nulls,
                              !.default = default, !.override = override]
    /\ UNCHANGED <<tc_name, tc_primary_key, tc_unique, tc_foreign_keys, tc_metadata>>

\* One call tc.set_primary_key(column)
set_primary_key(column) ==
    /\ tc_last.ok
    /\ IF ~column_exists(tc_columns, column)
       THEN /\ tc_last' = TableOutcome("set_primary_key", FALSE, "ValueError",
                                       "not found", column)
            /\ UNCHANGED tc_primary_key
       ELSE /\ tc_primary_key' = StrV(column)
            /\ tc_last' = TableOutcome("set_primary_key", TRUE, "none", "none", column)
    /\ UNCHANGED <<tc_name, tc_columns, tc_unique, tc_foreign_keys, tc_metadata>>

\* One call tc.add_unique_constraint(column): the column is not looked up
add_unique_constraint(column) ==
    /\ tc_last.ok
    /\ tc_unique' = tc_unique \cup {column}
    /\ tc_last' = TableOutcome("add_unique_constraint", TRUE, "none", "none", column)
    /\ UNCHANGED <<tc_name, tc_columns, tc_primary_key, tc_foreign_keys, tc_metadata>>

\* One call tc.add_foreign_key(column, ref_table, ref_column)
add_foreign_key(column, ref_table, ref_column) ==
    /\ tc_last.ok
    /\ IF ~column_exists(tc_columns, column)
       THEN /\ tc_last' = TableOutcome("add_foreign_key", FALSE, "ValueError",
                                       "not found", column)
            /\ UNCHANGED tc_foreign_keys
       ELSE /\ Len(tc_foreign_keys) < MaxForeignKeys
            /\ tc_foreign_keys' =
                   Append(tc_foreign_keys,
                          [column |-> column, ref_table |-> ref_table,
                           ref_column |-> ref_column])
            /\ tc_last' = TableOutcome("add_foreign_key", TRUE, "none", "none", column)
    /\ UNCHANGED <<tc_name, tc_columns, tc_primary_key, tc_unique, tc_metadata>>

\* One call tc.add_metadata(key, value)
add_metadata(key, value) ==
    /\ tc_last.ok
    /\ IF key \notin DOMAIN tc_metadata
       THEN /\ tc_last' = TableOutcome("add_metadata", FALSE, "KeyError", "not found", <<key>>)
            /\ UNCHANGED tc_metadata
       ELSE /\ tc_metadata' = [tc_metadata EXCEPT ![key] = value]
            /\ tc_last' = TableOutcome("add_metadata", TRUE, "none", "none", <<key>>)
    /\ UNCHANGED <<tc_name, tc_columns, tc_primary_key, tc_unique, tc_foreign_keys>>

\* The orders in which a set of names can be iterated
IterationOrders(S) ==
    {o \in [1..Cardinality(S) -> S] : \A a \in S : \E i \in 1..Cardinality(S) : o[i] = a}

\* Mutant of primary_key_clause: the clause is left out.
primary_key_clause_none(pk) == <<>>

\* "if self.primary_key: column_definitions += ..." of build_query_clauses
primary_key_clause(pk) ==
    IF pk # NoneV /\ Len(TextOf(pk)) > 0
    THEN <<",", " ", "PRIMARY", " ", "KEY", " ", "(">> \o TextOf(pk) \o <<")">>
    ELSE <<>>

\* The loop over self.unique_constraints, iterated in the order given
RECURSIVE unique_clauses(_)
unique_clauses(order) ==
    IF Len(order) = 0 THEN <<>>
    ELSE <<",", " ", "UNIQUE", " ", "(">> \o order[1] \o <<")">>
         \o unique_clauses(Tail(order))

\* The loop over self.foreign_keys
RECURSIVE foreign_key_clauses(_)
foreign_key_clauses(fks) ==
    IF Len(fks) = 0 THEN <<>>
    ELSE <<",", " ", "FOREIGN", " ", "KEY", " ", "(">> \o fks[1].column
         \o <<")", " ", "REFERENCES", " ">> \o fks[1].ref_table
         \o <<" ", "(">> \o fks[1].ref_column \o <<")">>
         \o foreign_key_clauses(Tail(fks))

\* " ".join([p for p in parts if len(p) > 0])
RECURSIVE join_parts(_)
join_parts(parts) ==
    IF Len(parts) = 0 THEN <<>>
    ELSE IF Len(parts[1]) = 0 THEN join_parts(Tail(parts))
    ELSE LET rest == join_parts(Tail(parts)) IN
         IF Len(rest) = 0 THEN parts[1] ELSE parts[1] \o <<" ">> \o rest

\* The text TableCreator.build_query_clauses renders for a table with columns,
\* the set of unique constraints iterated in the order given
create_table_text(order) ==
    LET column_definitions ==
            Join(<<",", " ">>, [i \in 1..Len(tc_columns) |-> tc_columns[i].definition])
            \o primary_key_clause(tc_primary_key)
            \o unique_clauses(order)
            \o foreign_key_clauses(tc_foreign_keys)
    IN join_parts(<< <<"CREATE">>,
                     IF tc_metadata.temporary THEN <<"TEMPORARY">> ELSE <<>>,
                     <<"TABLE">>,
                     IF tc_metadata.if_not_exists THEN <<"IF NOT EXISTS">> ELSE <<>>,
                     TextOf(tc_name),
                     <<"(">> \o column_definitions \o <<")">> >>)
       \o <<";">>

\* One call tc.build_query_clauses(): a 1-tuple with the text, or ValueError
TcBuild ==
    /\ tc_last.ok
    /\ IF Len(tc_columns) = 0
       THEN tc_last' = TableOutcome("build", FALSE, "ValueError", "No columns defined",
                                    TextOf(tc_name))
       ELSE \E order \in IterationOrders(tc_unique) :
               tc_last' = [TableOutcome("build", TRUE, "none", "none", TextOf(tc_name))
                              EXCEPT !.value = <<"tuple", create_table_text(order)>>]
    /\ UNCHANGED <<tc_name, tc_columns, tc_primary_key, tc_unique, tc_foreign_keys,
                   tc_metadata>>

\* Mutant of add_primary_column: the column is added and not made the key.
add_primary_column_no_key(cols) ==
    [columns |-> add_column(cols, <<"i", "d">>, EnumV("INTEGER"), FALSE, NoneV,
                            FALSE).columns,
     primary_key |-> NoneV]

\* TableCreator.add_primary_column with its default arguments, on a table that
\* has no column "id"
add_primary_column(cols) ==
    [columns |-> add_column(cols, <<"i", "d">>, EnumV("INTEGER"), FALSE, NoneV,
                            FALSE).columns,
     primary_key |-> StrV(<<"i", "d">>)]

\* The columns TableCreator.__init__ adds after the primary column
meta_columns_of(cols, created_at, updated_at, deleted_at, meta_columns) ==
    LET c1 == IF created_at /\ meta_columns
              THEN add_column(cols, <<"c", "r", "e", "a", "t", "e", "d", "_", "a", "t">>,
                              EnumV("TIMESTAMP"), TRUE,
                              StrV(<<"CURRENT_TIMESTAMP">>), FALSE).columns
              ELSE cols
        c2 == IF updated_at /\ meta_columns
              THEN add_column(c1, <<"u", "p", "d", "a", "t", "e", "d", "_", "a", "t">>,
                              EnumV("TIMESTAMP"), TRUE,
                              StrV(<<"CURRENT_TIMESTAMP">>), FALSE).columns
              ELSE c1
    IN IF deleted_at /\ meta_columns
       THEN add_column(c2, <<"d", "e", "l", "e", "t", "e", "d", "_", "a", "t">>,
                       EnumV("TIMESTAMP"), TRUE, StrV(<<"NULL">>), FALSE).columns
       ELSE c2

\* TableCreator.__init__
TableCreatorInit(table_name, primary, created_at, updated_at, deleted_at, meta_columns) ==
    LET p == IF primary /\ meta_columns THEN add_primary_column(<<>>)
             ELSE [columns |-> <<>>, primary_key |-> NoneV]
        flags == <<"flags", [primary |-> primary, created_at |-> created_at,
                             updated_at |-> updated_at, deleted_at |-> deleted_at,
                             meta_columns |-> meta_columns]>>
    IN
    /\ tc_name = StrV(table_name)
    /\ tc_unique = {}
    /\ tc_foreign_keys = <<>>
    /\ tc_metadata = [temporary |-> FALSE, if_not_exists |-> FALSE,
                      on_conflict |-> StrV(<<"FAIL">>)]
    /\ IF ~TABLE_NAME_REGEX(table_name)
       THEN /\ tc_columns = <<>>
            /\ tc_primary_key = NoneV
            /\ tc_last = [TableOutcome("init", FALSE, "ValueError",
                                       "Invalid table name", table_name)
                           EXCEPT !.flags = flags]
       ELSE /\ tc_columns = meta_columns_of(p.columns, created_at, updated_at,
                                            deleted_at, meta_columns)
            /\ tc_primary_key = p.primary_key
            /\ tc_last = [TableOutcome("init", TRUE, "none", "none", table_name)
                           EXCEPT !.flags = flags]

-----------------------------------------------------------------------------
(* error_handler: ErrorConfig, BaseErrorHandler, the strategies and catch *)

DEFAULT_ERROR_STRATEGY_PRIORITY == 20

\* The strategy classes: StringToIntStrategy and two subclasses of
\* ErrorHandlingStrategy that a caller defines, one that reports recovery and
\* one that reports none
StrategyClasses == {"StringToIntStrategy", "Recover", "Decline"}

\* ErrorConfig.__init__: re_raise or (the environment's default is "true")
ErrorConfig_re_raise(re_raise, env) ==
    \/ re_raise = BoolV("True")
    \/ env = "true"

\* can_handle of the strategy classes
can_handle(strategy, error) ==
    IF strategy = "StringToIntStrategy" THEN error = "TypeError" ELSE TRUE

\* The method of the class that catch wraps: self.value + other
wrapped_method(value, other) ==
    IF other[1] = "int"
    THEN [ok |-> TRUE, exc |-> "none", value |-> IntAdd(value, other)]
    ELSE [ok |-> FALSE, exc |-> "TypeError", value |-> NoneV]

\* int(arg) if str(arg).isnumeric() else arg
string_to_int(arg) ==
    IF arg[1] = "str" /\ Len(arg) = 2 /\ (\E i \in 1..Len(NatAtoms) : NatAtoms[i] = arg[2])
    THEN IntV(arg[2])
    ELSE arg

\* The call a strategy is handed: the wrapped method's arguments with
\* func=method, or nothing when handle_error is called without them
CallV(value, other) == <<"call", value, other>>

\* strategy.handle(error, *args, **kwargs): the pair (recovered, response), or
\* the exception handle raises
strategy_handle(strategy, error, call) ==
    IF strategy = "StringToIntStrategy"
    THEN IF call = NoneV
         THEN [raised |-> TRUE, exc |-> "KeyError", recovered |-> FALSE, response |-> NoneV]
         ELSE LET r == wrapped_method(call[2], string_to_int(call[3])) IN
              IF r.ok
              THEN [raised |-> FALSE, exc |-> "none", recovered |-> TRUE, response |-> r.value]
              ELSE [raised |-> FALSE, exc |-> "none", recovered |-> FALSE,
                    response |-> <<"error", error>>]
    ELSE IF strategy = "Recover"
    THEN [raised |-> FALSE, exc |-> "none", recovered |-> TRUE,
          response |-> StrV(<<"fallback">>)]
    ELSE [raised |-> FALSE, exc |-> "none", recovered |-> FALSE,
          response |-> <<"error", error>>]

\* BaseErrorHandler.sort_strategies: list.sort with the key x.priority, the
\* bound classmethod itself and not its value; two such keys cannot be
\* compared, so the sort raises TypeError on a list of two or more
sort_strategies(strategies) ==
    IF Len(strategies) >= 2
    THEN [ok |-> FALSE, strategies |-> strategies]
    ELSE [ok |-> TRUE, strategies |-> strategies]

\* The loop of handle_error over the strategies from position i on
RECURSIVE strategy_loop(_, _, _, _, _, _)
strategy_loop(strategies, i, enabled, error, call, invoked) ==
    IF i > Len(strategies)
    THEN [status |-> "exhausted", response |-> NoneV, exc |-> "none", invoked |-> invoked]
    ELSE IF ~(can_handle(strategies[i], error) /\ enabled[strategies[i]])
    THEN strategy_loop(strategies, i + 1, enabled, error, call, invoked)
    ELSE LET h == strategy_handle(strategies[i], error, call) IN
         IF h.raised
         THEN [status |-> "raised", response |-> NoneV, exc |-> h.exc,
               invoked |-> Append(invoked, strategies[i])]
         ELSE IF h.recovered
         THEN [status |-> "recovered", response |-> h.response, exc |-> "none",
               invoked |-> Append(invoked, strategies[i])]
         ELSE strategy_loop(strategies, i + 1, enabled, error, call,
                            Append(invoked, strategies[i]))

\* What a call on the error handler gave, with the arguments of the call
HandlerOutcome(op, ok, exc, msg, value) ==
    [op |-> op, ok |-> ok, exc |-> exc, msg |-> msg, value |-> value,
     handled |-> FALSE, invoked |-> <<>>, recovered |-> FALSE, error |-> "none",
     call |-> NoneV, reraise |-> Absent, strategy |-> "none", exists_ok |-> FALSE,
     re_raise_arg |-> NoneV]

\* BaseErrorHandler.handle_error(error, *args, **kwargs) with the keyword
\* reraise (Absent when not given) and the wrapped call (NoneV when not given)
handle_error(op, error, call, reraise) ==
    LET s == sort_strategies(eh_strategies)
        l == strategy_loop(s.strategies, 1, eh_enabled, error, call, <<>>)
        policy == IF reraise = Absent THEN eh_re_raise ELSE reraise = BoolV("True")
        base == [HandlerOutcome(op, TRUE, "none", "none", NoneV)
                    EXCEPT !.handled = TRUE, !.error = error, !.call = call,
                           !.reraise = reraise]
    IN
    IF Len(eh_strategies) > 0 /\ ~s.ok
    THEN [base EXCEPT !.ok = FALSE, !.exc = "TypeError", !.msg = "sort"]
    ELSE IF Len(eh_strategies) > 0 /\ l.status = "raised"
    THEN [base EXCEPT !.ok = FALSE, !.exc = l.exc, !.msg = "strategy",
                      !.invoked = l.invoked]
    ELSE IF Len(eh_strategies) > 0 /\ l.status = "recovered"
    THEN [base EXCEPT !.value = l.response, !.invoked = l.invoked, !.recovered = TRUE]
    ELSE IF policy
    THEN [base EXCEPT !.ok = FALSE, !.exc = error, !.msg = "original",
                      !.invoked = IF Len(eh_strategies) > 0 THEN l.invoked ELSE <<>>]
    ELSE [base EXCEPT !.invoked = IF Len(eh_strategies) > 0 THEN l.invoked ELSE <<>>]

\* One direct call ERROR_HANDLER.handle_error(error, reraise=...)
EhHandleError(error, reraise) ==
    /\ eh_last' = handle_error("handle_error", error, NoneV, reraise)
    /\ UNCHANGED <<eh_strategies, eh_enabled, eh_priority, eh_re_raise, eh_env>>

\* One call of the method of a class wrapped by catch: the wrapper of
\* error_handler_method
EhCatchCall(value, other) ==
    LET r == wrapped_method(value, other) IN
    /\ eh_last' = IF r.ok
                  THEN [HandlerOutcome("catch", TRUE, "none", "none", r.value)
                           EXCEPT !.call = CallV(value, other)]
                  ELSE handle_error("catch", r.exc, CallV(value, other), Absent)
    /\ UNCHANGED <<eh_strategies, eh_enabled, eh_priority, eh_re_raise, eh_env>>

InList(strategies, strategy) == \E i \in 1..Len(strategies) : strategies[i] = strategy

\* Mutant of append_new: the strategy is appended also when the list holds it.
append_always(strategies, strategy) == Append(strategies, strategy)

\* "if strategy not in self.strategies: self.strategies.append(strategy)"
append_new(strategies, strategy) ==
    IF ~InList(strategies, strategy) THEN Append(strategies, strategy) ELSE strategies

\* One call ERROR_HANDLER.add_strategy(strategy, exists_ok); "int" is a class
\* that is no subclass of ErrorHandlingStrategy
EhAddStrategy(strategy, exists_ok) ==
    LET base == [HandlerOutcome("add_strategy", TRUE, "none", "none", NoneV)
                    EXCEPT !.strategy = strategy, !.exists_ok = exists_ok]
    IN
    /\ IF strategy \notin StrategyClasses
       THEN /\ eh_last' = [base EXCEPT !.ok = FALSE, !.exc = "StrategyTypeError"]
            /\ UNCHANGED eh_strategies
       ELSE /\ eh_strategies' = append_new(eh_strategies, strategy)
            /\ eh_last' = IF InList(eh_strategies, strategy) /\ ~exists_ok
                          THEN [base EXCEPT !.ok = FALSE,
                                            !.exc = "StrategyAlreadyInUseError"]
                          ELSE base
    /\ UNCHANGED <<eh_enabled, eh_priority, eh_re_raise, eh_env>>

\* list.remove: the first entry equal to the strategy
RECURSIVE remove_first(_, _)
remove_first(strategies, strategy) ==
    IF Len(strategies) = 0 THEN <<>>
    ELSE IF strategies[1] = strategy THEN Tail(strategies)
    ELSE <<strategies[1]>> \o remove_first(Tail(strategies), strategy)

\* One call ERROR_HANDLER.remove_strategy(strategy)
EhRemoveStrategy(strategy) ==
    LET base == [HandlerOutcome("remove_strategy", TRUE, "none", "none", NoneV)
                    EXCEPT !.strategy = strategy]
    IN
    /\ IF ~InList(eh_strategies, strategy)
       THEN /\ eh_last' = [base EXCEPT !.ok = FALSE, !.exc = "ValueError"]
            /\ UNCHANGED eh_strategies
       ELSE /\ eh_strategies' = remove_first(eh_strategies, strategy)
            /\ eh_last' = base
    /\ UNCHANGED <<eh_enabled, eh_priority, eh_re_raise, eh_env>>

\* One call ERROR_HANDLER.clear_strategies()
EhClearStrategies ==
    /\ eh_strategies' = <<>>
    /\ eh_last' = HandlerOutcome("clear_strategies", TRUE, "none", "none", NoneV)
    /\ UNCHANGED <<eh_enabled, eh_priority, eh_re_raise, eh_env>>

\* One call strategy.enable() or strategy.disable() on a strategy class
EhSetEnabled(strategy, value) ==
    /\ eh_enabled' = [eh_enabled EXCEPT ![strategy] = value]
    /\ eh_last' = [HandlerOutcome(IF value THEN "enable" ELSE "disable", TRUE, "none",
                                  "none", NoneV)
                      EXCEPT !.strategy = strategy]
    /\ UNCHANGED <<eh_strategies, eh_priority, eh_re_raise, eh_env>>

\* One call strategy.set_priority(priority) on a strategy class; the bounds
\* are the defaults 1 and 100
EhSetPriority(strategy, priority) ==
    LET base == [HandlerOutcome("set_priority", TRUE, "none", "none", NoneV)
                    EXCEPT !.strategy = strategy]
    IN
    /\ IF priority < 1 \/ priority > 100
       THEN /\ eh_last' = [base EXCEPT !.ok = FALSE, !.exc = "ValueError"]
            /\ UNCHANGED eh_priority
       ELSE /\ eh_priority' = [eh_priority EXCEPT ![strategy] = priority]
            /\ eh_last' = base
    /\ UNCHANGED <<eh_strategies, eh_enabled, eh_re_raise, eh_env>>

\* One call configure_error_handler(ErrorConfig(re_raise=...)): the one
\* BaseErrorHandler instance is initialised again, with no strategies
EhConfigure(re_raise) ==
    /\ eh_re_raise' = ErrorConfig_re_raise(re_raise, eh_env)
    /\ eh_strategies' = <<>>
    /\ eh_last' = [HandlerOutcome("configure", TRUE, "none", "none", NoneV)
                      EXCEPT !.re_raise_arg = re_raise]
    /\ UNCHANGED <<eh_enabled, eh_priority, eh_env>>

\* ERROR_HANDLER = BaseErrorHandler(ErrorConfig()) in a process whose
\* DEFAULT_TO_RERAISE_EXCEPTIONS is env
HandlerInit(env) ==
    /\ eh_env = env
    /\ eh_re_raise = ErrorConfig_re_raise(NoneV, env)
    /\ eh_strategies = <<>>
    /\ eh_enabled = [s \in StrategyClasses |-> TRUE]
    /\ eh_priority = [s \in StrategyClasses |-> DEFAULT_ERROR_STRATEGY_PRIORITY]
    /\ eh_last = HandlerOutcome("init", TRUE, "none", "none", NoneV)

-----------------------------------------------------------------------------
(* error_handler/decorators.py and error_handler/strategy.py:
   the error_handler decorator, LoggingStrategy, RetryStrategy, the registry *)

LoggingStrategy(default_return) == <<"logging", default_return>>
RetryStrategy(retries) == <<"retry", retries>>

\* What one invocation of the decorated function's body does
BodyOutcomes == {"return", "ValueError", "TypeErrorArgs"}

\* An exception with the invocation of the body that raised it; invocation 0
\* is the call that failed before the body ran.  TypeErrorArgs is a TypeError
\* whose message ends in "takes 1 positional argument but 2 were given".
ExcV(exc_type, k) == <<"exc", exc_type, k>>
ResultV(k) == <<"result", k>>

\* func(*args) for a function of one parameter: with an extra positional
\* argument the call fails before the body runs; otherwise the body runs for
\* the (k+1)-th time and does what outcomes says
call_func(extra, outcomes, k) ==
    IF extra > 0
    THEN [ok |-> FALSE, exc |-> ExcV("TypeErrorArgs", 0), value |-> NoneV, k |-> k]
    ELSE IF outcomes[k + 1] = "return"
    THEN [ok |-> TRUE, exc |-> NoneV, value |-> ResultV(k + 1), k |-> k + 1]
    ELSE [ok |-> FALSE, exc |-> ExcV(outcomes[k + 1], k + 1), value |-> NoneV, k |-> k + 1]

\* The inner try of wrapper: func(*args, **kwargs), and func(args[0]) after a
\* TypeError whose message ends in "takes 1 positional argument but 2 were
\* given"
inner_try(extra, outcomes) ==
    LET c == call_func(extra, outcomes, 0) IN
    IF c.ok THEN c
    ELSE IF c.exc[2] = "TypeErrorArgs" THEN call_func(0, outcomes, c.k)
    ELSE c

\* The loop of RetryStrategy.handle from the given attempt on; calls counts
\* the calls of func the loop has made
RECURSIVE retry_loop(_, _, _, _, _, _)
retry_loop(retries, attempt, extra, outcomes, k, calls) ==
    IF attempt > retries
    THEN [ok |-> TRUE, exc |-> NoneV, value |-> NoneV, k |-> k, calls |-> calls]
    ELSE LET c == call_func(extra, outcomes, k) IN
         IF c.ok
         THEN [ok |-> TRUE, exc |-> NoneV, value |-> c.value, k |-> c.k,
               calls |-> calls + 1]
         ELSE IF attempt + 1 > retries
         THEN [ok |-> FALSE, exc |-> c.exc, value |-> NoneV, k |-> c.k,
               calls |-> calls + 1]
         ELSE retry_loop(retries, attempt + 1, extra, outcomes, c.k, calls + 1)

\* RetryStrategy.handle(exception, func, args)
retry_handle(retries, extra, outcomes, k) ==
    retry_loop(retries, 1, extra, outcomes, k, 0)

\* LoggingStrategy.handle(exception, func, args, logger)
logging_handle(default_return, exception, k) ==
    IF default_return # NoneV
    THEN [ok |-> TRUE, exc |-> NoneV, value |-> default_return, k |-> k, calls |-> 0]
    ELSE [ok |-> FALSE, exc |-> exception, value |-> NoneV, k |-> k, calls |-> 0]

\* What a call gave: op, the arguments, the result or the exception, the
\* number of times the body ran (invocations) and the number of calls of func
\* the strategy made (calls)
DecoratorOutcome(op, strategy_name, extra, outcomes, r) ==
    [op |-> op, strategy_name |-> strategy_name, extra |-> extra, outcomes |-> outcomes,
     ok |-> r.ok, exc |-> r.exc, value |-> r.value, invocations |-> r.k,
     calls |-> r.calls]

\* wrapper(*args, **kwargs) of error_handler(strategy_name)
wrapper(strategy_name, extra, outcomes) ==
    LET c == inner_try(extra, outcomes)
        strategy == d_registry[strategy_name]
    IN
    IF c.ok
    THEN [ok |-> TRUE, exc |-> NoneV, value |-> c.value, k |-> c.k, calls |-> 0]
    ELSE IF strategy_name \in DOMAIN d_registry /\ strategy # NoneV
    THEN IF strategy[1] = "logging"
         THEN logging_handle(strategy[2], c.exc, c.k)
         ELSE retry_handle(strategy[2], extra, outcomes, c.k)
    ELSE [ok |-> FALSE, exc |-> c.exc, value |-> NoneV, k |-> c.k, calls |-> 0]

\* One call of a function decorated with error_handler(strategy_name)
DecCall(strategy_name, extra, outcomes) ==
    /\ d_last' = DecoratorOutcome("call", strategy_name, extra, outcomes,
                                  wrapper(strategy_name, extra, outcomes))
    /\ UNCHANGED d_registry

\* One call STRATEGY_REGISTRY["retry"].handle(exception, func, args)
DecRetryHandle(outcomes) ==
    /\ d_registry["retry"] # NoneV
    /\ d_registry["retry"][1] = "retry"
    /\ d_last' = DecoratorOutcome("retry_handle", "retry", 0, outcomes,
                                  retry_handle(d_registry["retry"][2], 0, outcomes, 0))
    /\ UNCHANGED d_registry

\* One call register_strategy(name, strategy)
register_strategy(name, strategy) ==
    /\ d_registry' = [d_registry EXCEPT ![name] = strategy]
    /\ d_last' = [DecoratorOutcome("register", name, 0, <<>>,
                                   [ok |-> TRUE, exc |-> NoneV, value |-> NoneV,
                                    k |-> 0, calls |-> 0])
                     EXCEPT !.value = strategy]

\* The registry after the import of strategy.py (lines 71-72)
RegistryInit ==
    /\ d_registry = [n \in {"logging", "retry", "custom"} |->
                        IF n = "logging" THEN LoggingStrategy(NoneV)
                        ELSE IF n = "retry" THEN RetryStrategy(2)
                        ELSE NoneV]
    /\ d_last = DecoratorOutcome("init", "none", 0, <<>>,
                                 [ok |-> TRUE, exc |-> NoneV, value |-> NoneV,
                                  k |-> 0, calls |-> 0])

\* The objects the other specifications leave alone
HandlerIdle == HandlerInit("unset")
RegistryIdle == RegistryInit

-----------------------------------------------------------------------------
(* Inputs of the builder's calls *)
TableNames == { <<"t">>, <<"u", "_", "1">>, <<"b", " ", "!">>, <<"t", "\n">> }
TableArgs == { NoneV, StrV(<<>>), StrV(<<"t">>), StrV(<<"b", " ", "!">>) }
ColumnNames == { <<"a">>, <<"b">> }
ParamValues == { StrV(<<"x">>) }
ColumnArgs == { <<>>, <<StrV(<<"a">>)>>, <<IntV("1")>> }
DataArgs ==
    { <<>>, << <<<<"a">>, IntV("1")>> >>,
      << <<<<"a">>, IntV("1")>>, <<<<"b">>, StrV(<<"x">>)>> >> }
ConflictArgs == {NoneV, StrV(<<"IGNORE">>), StrV(<<"BOGUS">>)}
ClauseBuilderArgs ==
    { [ref |-> "none", attrs |-> NoClauseAttrs],
      [ref |-> "object", attrs |-> NoClauseAttrs],
      [ref |-> "object", attrs |-> reset_query_clause] }
\* join_type: the default "INNER", and a lower-case name
JoinTypes == { <<"INNER">>, <<"left">> }
NoKw == [logical_operator |-> Absent, param |-> Absent, operator |-> Absent]
\* WhereGroup(lop) after the one add that gave r
GroupOf(r, lop) == [conditions |-> r.conditions, params |-> r.params,
                    logical_operator |-> StrV(<<lop>>)]
Groups ==
    { GroupOf(add(<<>>, <<>>, << <<"age">>, StrV(<<">">>), IntV("18") >>, NoKw), "AND"),
      GroupOf(add(<<>>, <<>>, << <<"name">> >>, NoKw), "OR") }

-----------------------------------------------------------------------------
(* Construction *)

\* What a constructor that returns leaves as the outcome of the last call
Constructed == Returned("init", NoneV, FALSE)

\* BuilderBase.__init__ and ParameterManager.__init__
BaseInit(k, tbl, outcome) ==
    /\ kind = k
    /\ _table = tbl
    /\ _state_changed = TRUE
    /\ _query_type = StrV(<<k>>)
    /\ _cached_query = NoneV
    /\ _cached_params = NoneV
    /\ clause_attrs = NoClauseAttrs
    /\ last = outcome
    /\ prev = outcome

\* SelectQueryBuilder.__init__
SelectInit(tbl, cols) ==
    /\ BaseInit("select", tbl, Constructed)
    /\ _columns = cols
    /\ _params = <<>>
    /\ _joins = NoneV
    /\ _on_conflict = NoneV
    /\ clause_builder = [ref |-> "unset", attrs |-> NoClauseAttrs]

\* InsertQueryBuilder.__init__
InsertInit(tbl, conflict, data) ==
    /\ BaseInit("insert", tbl, Constructed)
    /\ _on_conflict = conflict
    /\ _columns = [i \in 1..Len(data) |-> StrV(data[i][1])]
    /\ _params = [i \in 1..Len(data) |-> data[i][2]]
    /\ _joins = NoneV
    /\ clause_builder = [ref |-> "unset", attrs |-> NoClauseAttrs]

\* UpdateQueryBuilder.__init__: the first column/value pair appends the column
\* and then reads self.param_manager, an attribute no class defines
UpdateInit(tbl, cb, data) ==
    /\ BaseInit("update", tbl,
                IF data = <<>> THEN Constructed
                ELSE Raised("init", "AttributeError", "none", "none", FALSE))
    /\ clause_builder = cb
    /\ _columns = IF data = <<>> THEN <<>> ELSE <<StrV(data[1][1])>>
    /\ _params = <<>>
    /\ _joins = NoneV
    /\ _on_conflict = NoneV

\* DeleteQueryBuilder.__init__
DeleteInit(tbl, cb) ==
    /\ BaseInit("delete", tbl, Constructed)
    /\ clause_builder = cb
    /\ _columns = <<>>
    /\ _params = <<>>
    /\ _joins = NoneV
    /\ _on_conflict = NoneV

\* Builder.select / insert / update / delete
BuilderInit ==
    \E tbl \in TableArgs :
        \/ \E cols \in ColumnArgs : SelectInit(tbl, cols)
        \/ \E c \in ConflictArgs, d \in DataArgs : InsertInit(tbl, c, d)
        \/ \E cb \in ClauseBuilderArgs, d \in DataArgs : UpdateInit(tbl, cb, d)
        \/ \E cb \in ClauseBuilderArgs : DeleteInit(tbl, cb)

\* The object the other specification leaves alone
BuilderIdle == InsertInit(NoneV, NoneV, <<>>)
WhereIdle ==
    /\ conditions = <<>>
    /\ params = <<>>
    /\ logical_operator = StrV(<<"AND">>)
    /\ wg_last = [op |-> "init", ok |-> TRUE, exc |-> "none", lop |-> Absent]

\* The object the builder specifications leave alone
ClauseIdle ==
    /\ qcb = NoClauseAttrs
    /\ qcb_last = ClauseOutcome("init", "none", FALSE, TRUE, "none", <<>>)

\* A QueryClauseBuilder as constructed (no attribute yet), or one on which
\* reset_query_clause() ran and whose where_conditions, limit and offset the
\* owner then assigned, as the statement builders assign limit and offset
ClauseInit ==
    /\ \/ qcb = NoClauseAttrs
       \/ \E w \in {NoneV, ListV(<<>>)}, l \in {NoneV, IntV("5")},
             f \in {NoneV, IntV("0")} :
               qcb = [reset_query_clause EXCEPT !.where_conditions = w,
                                                !.limit = l, !.offset = f]
    /\ qcb_last = ClauseOutcome("init", "none", FALSE, TRUE, "none", <<>>)

-----------------------------------------------------------------------------
(* Specifications *)

Build == build_query_clauses /\ UNCHANGED <<wgVars, qVars, tVars, eVars, dVars>>
Table == \E n \in TableNames : table(n) /\ UNCHANGED <<wgVars, qVars, tVars, eVars, dVars>>
WhereCall == \E g \in Groups : where(g) /\ UNCHANGED <<wgVars, qVars, tVars, eVars, dVars>>
Reset == reset /\ UNCHANGED <<wgVars, qVars, tVars, eVars, dVars>>
AddParam == \E v \in ParamValues : add_param(v) /\ UNCHANGED <<wgVars, qVars, tVars, eVars, dVars>>
Extend == \E v \in ParamValues : extend(<<v, v>>) /\ UNCHANGED <<wgVars, qVars, tVars, eVars, dVars>>
Limit == \E n \in {IntV("10")} : limit(n) /\ UNCHANGED <<wgVars, qVars, tVars, eVars, dVars>>
Offset == \E n \in {IntV("5")} : offset(n) /\ UNCHANGED <<wgVars, qVars, tVars, eVars, dVars>>
GroupBy == \E c \in ColumnNames : group_by(<<c>>) /\ UNCHANGED <<wgVars, qVars, tVars, eVars, dVars>>
Having == \E g \in Groups : having(GroupV(g)) /\ UNCHANGED <<wgVars, qVars, tVars, eVars, dVars>>
OrderBy == \E c \in ColumnNames : order_by(<< <<c, <<"ASC">>>> >>) /\ UNCHANGED <<wgVars, qVars, tVars, eVars, dVars>>
Join_ ==
    \E join_type \in JoinTypes :
        join(<<"u">>, <<"x">>, join_type) /\ UNCHANGED <<wgVars, qVars, tVars, eVars, dVars>>
OnConflict ==
    \E a \in {EnumV("REPLACE"), StrV(<<"IGNORE">>)} :
        on_conflict(a) /\ UNCHANGED <<wgVars, qVars, tVars, eVars, dVars>>

Next ==
    \/ Build
    \/ Table
    \/ WhereCall
    \/ Reset
    \/ AddParam
    \/ Extend
    \/ Limit
    \/ Offset
    \/ GroupBy
    \/ Having
    \/ OrderBy
    \/ Join_
    \/ OnConflict

\* The kinds add() is called with: the five it names, and two it does not
\* The object the other specifications leave alone
TableIdle == TableCreatorInit(<<"w">>, TRUE, TRUE, TRUE, TRUE, FALSE)

\* TableCreator(name, flags): a valid and an invalid name; the flags all
\* true, one of them false, or meta_columns false
TableFlags ==
    { f \in [primary : BOOLEAN, created_at : BOOLEAN, updated_at : BOOLEAN,
             deleted_at : BOOLEAN, meta_columns : BOOLEAN] :
        Cardinality({k \in {"primary", "created_at", "updated_at", "deleted_at",
                            "meta_columns"} : ~f[k]}) <= 1 }
TableInit ==
    \E n \in { <<"w">>, <<"b", " ", "!">> }, f \in TableFlags :
        TableCreatorInit(n, f.primary, f.created_at, f.updated_at, f.deleted_at,
                         f.meta_columns)

\* The defaults add_column is called with, one of each native type
DefaultArgs ==
    {IntV("1"), StrV(<<"x">>), FloatV("1.5"), BytesV("x"), BoolV("True"), EnumV("TEXT")}

TableAddColumn ==
    /\ \/ \E data_type \in DataType, default \in DefaultArgs :
             TcAddColumn(<<"n">>, data_type, TRUE, default, FALSE)
       \/ \E data_type \in {EnumV("TEXT"), StrV(<<"TEXT">>)}, override \in BOOLEAN :
             TcAddColumn(<<"i", "d">>, data_type, TRUE, NoneV, override)
       \/ \E name \in { <<"n">>, <<"s", "e", "t">>, <<"S", "e", "t">>,
                         <<"a", " ", "b">>, <<"n", "\n">> } :
             TcAddColumn(name, EnumV("TEXT"), FALSE, NoneV, FALSE)
    /\ UNCHANGED <<wgVars, bVars, last, prev, qVars, eVars, dVars>>
TableSetPrimaryKey ==
    /\ \E column \in { <<"i", "d">>, <<"n", "o", "p", "e">> } : set_primary_key(column)
    /\ UNCHANGED <<wgVars, bVars, last, prev, qVars, eVars, dVars>>
TableAddUnique ==
    /\ \E column \in { <<"i", "d">>, <<"n", "o", "p", "e">> } : add_unique_constraint(column)
    /\ UNCHANGED <<wgVars, bVars, last, prev, qVars, eVars, dVars>>
TableAddForeignKey ==
    /\ \E column \in { <<"i", "d">>, <<"n", "o", "p", "e">> } :
          add_foreign_key(column, <<"o">>, <<"i", "d">>)
    /\ UNCHANGED <<wgVars, bVars, last, prev, qVars, eVars, dVars>>

NextTable ==
    \/ TableAddColumn
    \/ TableSetPrimaryKey
    \/ TableAddUnique
    \/ TableAddForeignKey

InitTable == TableInit /\ BuilderIdle /\ WhereIdle /\ ClauseIdle /\ HandlerIdle /\ RegistryIdle

SpecTable == InitTable /\ [][NextTable]_vars

\* The calls made on a table that is then rendered
CreateAddColumn ==
    /\ \/ TcAddColumn(<<"n">>, EnumV("TEXT"), TRUE, StrV(<<"x">>), FALSE)
       \/ TcAddColumn(<<"i", "d">>, EnumV("TEXT"), TRUE, NoneV, TRUE)
    /\ UNCHANGED <<wgVars, bVars, last, prev, qVars, eVars, dVars>>
CreateSetPrimaryKey ==
    /\ \E column \in { <<"i", "d">>, <<"n">> } : set_primary_key(column)
    /\ UNCHANGED <<wgVars, bVars, last, prev, qVars, eVars, dVars>>
CreateAddMetadata ==
    /\ \E key \in {"temporary", "if_not_exists", "bogus"}, value \in BOOLEAN :
          add_metadata(key, value)
    /\ UNCHANGED <<wgVars, bVars, last, prev, qVars, eVars, dVars>>
CreateBuild ==
    /\ TcBuild
    /\ UNCHANGED <<wgVars, bVars, last, prev, qVars, eVars, dVars>>

NextCreate ==
    \/ CreateAddColumn
    \/ CreateSetPrimaryKey
    \/ TableAddUnique
    \/ TableAddForeignKey
    \/ CreateAddMetadata
    \/ CreateBuild

InitCreate == TableInit /\ BuilderIdle /\ WhereIdle /\ ClauseIdle /\ HandlerIdle /\ RegistryIdle

SpecCreate == InitCreate /\ [][NextCreate]_vars

\* The calls on the error handler
HandlerAddStrategy ==
    /\ \E strategy \in StrategyClasses \cup {"int"}, exists_ok \in BOOLEAN :
          EhAddStrategy(strategy, exists_ok)
    /\ UNCHANGED <<wgVars, bVars, last, prev, qVars, tVars, dVars>>
HandlerRemoveStrategy ==
    /\ \E strategy \in StrategyClasses : EhRemoveStrategy(strategy)
    /\ UNCHANGED <<wgVars, bVars, last, prev, qVars, tVars, dVars>>
HandlerClearStrategies ==
    /\ EhClearStrategies
    /\ UNCHANGED <<wgVars, bVars, last, prev, qVars, tVars, dVars>>
HandlerSetEnabled ==
    /\ \E strategy \in StrategyClasses, value \in BOOLEAN : EhSetEnabled(strategy, value)
    /\ UNCHANGED <<wgVars, bVars, last, prev, qVars, tVars, dVars>>
HandlerSetPriority ==
    /\ \E strategy \in StrategyClasses, priority \in {0, 10} :
          EhSetPriority(strategy, priority)
    /\ UNCHANGED <<wgVars, bVars, last, prev, qVars, tVars, dVars>>
HandlerConfigure ==
    /\ \E re_raise \in {NoneV, BoolV("True"), BoolV("False")} : EhConfigure(re_raise)
    /\ UNCHANGED <<wgVars, bVars, last, prev, qVars, tVars, dVars>>
HandlerHandleError ==
    /\ \E error \in {"TypeError", "ValueError"},
          reraise \in {Absent, BoolV("True"), BoolV("False")} :
          EhHandleError(error, reraise)
    /\ UNCHANGED <<wgVars, bVars, last, prev, qVars, tVars, dVars>>
HandlerCatchCall ==
    /\ \E other \in {IntV("5"), StrV(<<"5">>), StrV(<<"x">>)} :
          EhCatchCall(IntV("5"), other)
    /\ UNCHANGED <<wgVars, bVars, last, prev, qVars, tVars, dVars>>

NextHandler ==
    \/ HandlerAddStrategy
    \/ HandlerRemoveStrategy
    \/ HandlerClearStrategies
    \/ HandlerSetEnabled
    \/ HandlerSetPriority
    \/ HandlerConfigure
    \/ HandlerHandleError
    \/ HandlerCatchCall

InitHandler ==
    /\ \E env \in {"unset", "true"} : HandlerInit(env)
    /\ BuilderIdle /\ WhereIdle /\ ClauseIdle /\ TableIdle /\ RegistryIdle

SpecHandler == InitHandler /\ [][NextHandler]_vars

\* The calls through the decorator and on the registry
BodyRuns == [1..(MaxRetries + 2) -> BodyOutcomes]
DecoratedCall ==
    /\ \E strategy_name \in {"logging", "retry", "custom"}, extra \in {0, 1},
          outcomes \in BodyRuns :
          DecCall(strategy_name, extra, outcomes)
    /\ UNCHANGED <<wgVars, bVars, last, prev, qVars, tVars, eVars>>
RetryHandle ==
    /\ \E outcomes \in BodyRuns : DecRetryHandle(outcomes)
    /\ UNCHANGED <<wgVars, bVars, last, prev, qVars, tVars, eVars>>
RegisterStrategy ==
    /\ \/ \E retries \in 0..MaxRetries : register_strategy("retry", RetryStrategy(retries))
       \/ \E default_return \in {NoneV, IntV("0")} :
             register_strategy("logging", LoggingStrategy(default_return))
    /\ UNCHANGED <<wgVars, bVars, last, prev, qVars, tVars, eVars>>

NextDecorator ==
    \/ DecoratedCall
    \/ RetryHandle
    \/ RegisterStrategy

InitDecorator ==
    RegistryInit /\ BuilderIdle /\ WhereIdle /\ ClauseIdle /\ TableIdle /\ HandlerIdle

SpecDecorator == InitDecorator /\ [][NextDecorator]_vars

AddKinds == {"where", "having", "limit", "order_by", "group_by", "offset", "bogus"}

ClauseAdd ==
    /\ \/ \E type_ \in AddKinds, g \in Groups : ClauseAddCall(type_, TRUE, <<g>>)
       \/ \E type_ \in {"limit", "offset", "bogus"} :
             ClauseAddCall(type_, FALSE, <<IntV("5")>>)
       \/ \E type_ \in {"order_by", "bogus"} :
             ClauseAddCall(type_, FALSE, << <<"a">>, <<"ASC">> >>)
       \/ \E type_ \in {"group_by", "bogus"}, c \in ColumnNames :
             ClauseAddCall(type_, FALSE, <<c>>)
    /\ UNCHANGED <<wgVars, bVars, last, prev, tVars, eVars, dVars>>
ClauseReset == ClauseResetCall /\ UNCHANGED <<wgVars, bVars, last, prev, tVars, eVars, dVars>>
ClauseBuild == ClauseBuildCall /\ UNCHANGED <<wgVars, bVars, last, prev, tVars, eVars, dVars>>

NextClause ==
    \/ ClauseAdd
    \/ ClauseReset
    \/ ClauseBuild

InitClause == ClauseInit /\ BuilderIdle /\ WhereIdle /\ TableIdle /\ HandlerIdle /\ RegistryIdle

SpecClause == InitClause /\ [][NextClause]_vars

Init == BuilderInit /\ WhereIdle /\ ClauseIdle /\ TableIdle /\ HandlerIdle /\ RegistryIdle

Spec == Init /\ [][Next]_vars

WhereNext == WhereAdd /\ UNCHANGED <<bVars, last, prev, qVars, tVars, eVars, dVars>>

InitWhere == WhereInit /\ BuilderIdle /\ ClauseIdle /\ TableIdle /\ HandlerIdle /\ RegistryIdle

SpecWhere == InitWhere /\ [][WhereNext]_vars


-----------------------------------------------------------------------------
(* Claims *)

\* C1: after any sequence of WhereGroup.add calls, get_params() has as many
\* entries as build() has "?" placeholders, and its i-th entry is the value
\* bound by the condition that emitted the i-th placeholder.
C1_ParamsMatchPlaceholders ==
    /\ Len(get_params(params)) = Placeholders
    /\ get_params(params) = BoundValues(conditions)

\* C2: a second build_query_clauses() right after a successful one returns a
\* pair equal to the first (same text, same parameter list).
C2_RepeatedBuildEqual ==
    (prev.op = "build" /\ prev.ok /\ last.op = "build")
        => (last.ok /\ last.value = prev.value)

\* C2 witness: a memoized pair with a parameter was returned again.
C2_Witness ==
    /\ prev.op = "build" /\ prev.ok
    /\ last.op = "build" /\ last.ok /\ ~last.rendered
    /\ Len(last.value[3]) > 0

\* C3: after a successful build_query_clauses() the dirty flag is false and a
\* memo pair exists, and the build that follows it does not run _build again.
C3_BuildClearsDirty ==
    /\ (last.op = "build" /\ last.ok)
          => (~_state_changed /\ _cached_query # NoneV)
    /\ (prev.op = "build" /\ prev.ok /\ last.op = "build")
          => (last.ok /\ ~last.rendered)

MutatingOps ==
    {"table", "where", "order_by", "limit", "offset", "group_by", "having",
     "join", "on_conflict"}

\* C4: every mutating call sets the dirty flag, and the build that follows a
\* mutating call renders again instead of returning the memoized pair.
C4_MutationSetsDirty ==
    /\ (last.op \in MutatingOps /\ last.ok) => _state_changed
    /\ (prev.op \in MutatingOps /\ prev.ok /\ last.op = "build" /\ last.ok)
          => last.rendered

\* C5: reset() leaves the table binding as it was, for every builder kind.
C5_ResetKeepsTable ==
    [][last'.op = "reset" => _table' = _table]_vars

ClauseKeywords == {"WHERE", "GROUP", "ORDER", "LIMIT", "OFFSET"}

\* C6: after reset() on a Select builder the memo slot is empty and the clause
\* state is cleared, and the build that follows it on a bound table succeeds
\* with a SELECT from that table that holds no clause fragment.
C6_SelectBuildsAfterReset ==
    /\ (kind = "select" /\ last.op = "reset")
          => /\ _cached_query = NoneV /\ _cached_params = NoneV
             /\ _joins = NoneV
             /\ clause_builder.attrs.where_conditions = NoneV
             /\ clause_builder.attrs.group_by = <<>>
             /\ clause_builder.attrs.order_by = <<>>
             /\ clause_builder.attrs.limit = NoneV
             /\ clause_builder.attrs.offset = NoneV
    /\ (kind = "select" /\ prev.op = "reset" /\ last.op = "build" /\ Truthy(_table))
          => /\ last.ok
             /\ Head(last.value[2]) = "SELECT"
             /\ \E i \in 1..Len(last.value[2]) :
                   SubSeq(last.value[2], i, i + 1 + Len(Format(_table)))
                       = <<"FROM", " ">> \o Format(_table)
             /\ \A k \in ClauseKeywords : ~Contains(last.value[2], k)

\* C7: build_query_clauses() with no table bound and no valid memo pair raises
\* QueryBuilderError("No table specified") without rendering, memoizing or
\* changing any field of the builder.
C7_NoTableBuildFails ==
    [][(last'.op = "build" /\ ~Truthy(_table) /\ ~memo_valid)
          => /\ ~last'.ok
             /\ last'.exc = "QueryBuilderError"
             /\ last'.msg = "No table specified"
             /\ ~last'.rendered
             /\ UNCHANGED bVars]_vars

\* C7 witness: a build failed for want of a table.
C7_Witness ==
    /\ last.op = "build" /\ ~last.ok /\ last.msg = "No table specified"
    /\ ~Truthy(_table)

\* C8: an exception raised by _build reaches the caller of build_query_clauses()
\* as a QueryBuilderError whose cause is that exception; a failed build raises
\* no other kind of exception.
C8_RenderErrorWrapped ==
    (last.op = "build" /\ ~last.ok)
        => /\ last.exc = "QueryBuilderError"
           /\ last.rendered => (~_build.ok /\ last.cause = _build.exc)

\* C8 witness: a render raised and the build failed.
C8_Witness ==
    /\ last.op = "build" /\ ~last.ok /\ last.rendered
    /\ last.cause \in {"AttributeError", "TypeError"}

\* C9: table(name) with a name outside the identifier grammar raises the
\* table-name error and changes nothing; with a name inside it binds the name
\* and changes nothing else; a second table() with the same name changes nothing.
C9_TableValidation ==
    [][last'.op = "table" =>
          /\ IF TABLE_NAME_REGEX(TextOf(last'.arg))
             THEN /\ last'.ok
                  /\ _table' = last'.arg
                  /\ UNCHANGED <<kind, _columns, _params, _cached_query,
                                 _cached_params, _state_changed, _query_type,
                                 _on_conflict, _joins, clause_attrs, clause_builder>>
             ELSE /\ ~last'.ok
                  /\ last'.exc = "QueryBuilderError"
                  /\ last'.msg = "Invalid table name"
                  /\ UNCHANGED bVars
          /\ (last.op = "table" /\ last.ok /\ last'.arg = last.arg)
                => UNCHANGED bVars]_vars

\* C9 witness: the same valid name was bound twice in a row.
C9_Witness ==
    /\ prev.op = "table" /\ prev.ok
    /\ last.op = "table" /\ last.ok /\ last.arg = prev.arg
    /\ _table = last.arg

\* C10: the bound table is always absent or an identifier: the constructors
\* and table() reject any other name.
C10_TableAlwaysValid ==
    _table = NoneV \/ (IsStr(_table) /\ TABLE_NAME_REGEX(TextOf(_table)))

C12_InsertRendersData ==
    (kind = "insert" /\ prev.op = "init" /\ last.op = "build" /\ Truthy(_table))
        => \E d \in DataArgs :
              LET k == Len(d)
                  names == Join(<<",", " ">>, [i \in 1..k |-> d[i][1]])
                  marks == Join(<<",", " ">>, [i \in 1..k |-> <<"?">>])
                  strategy == IF _on_conflict = NoneV THEN <<>>
                              ELSE <<" ", "OR", " ">> \o TextOf(_on_conflict)
              IN /\ last.ok
                 /\ last.value[2] =
                        <<"INSERT">> \o strategy \o <<" ", "INTO", " ">>
                        \o TextOf(_table) \o <<" ", "(">> \o names
                        \o <<")", " ", "VALUES", " ", "(">> \o marks \o <<")">>
                 /\ Count(last.value[2], "?") = k
                 /\ last.value[3] = [i \in 1..k |-> d[i][2]]
                 /\ (_on_conflict = NoneV => ~Contains(last.value[2], "OR"))

\* C12 witness: InsertQueryBuilder("t", "IGNORE", a=1, b="x") was built.
C12_Witness ==
    /\ kind = "insert" /\ prev.op = "init" /\ last.op = "build" /\ last.ok
    /\ last.value =
           PairV(<<"INSERT", " ", "OR", " ", "IGNORE", " ", "INTO", " ", "t", " ",
                   "(", "a", ",", " ", "b", ")", " ", "VALUES", " ",
                   "(", "?", ",", " ", "?", ")">>,
                 <<IntV("1"), StrV(<<"x">>)>>)

\* C13: an Insert build never gives a text whose conflict strategy is outside
\* IGNORE, REPLACE, ROLLBACK, ABORT and FAIL, whether the strategy came from
\* the constructor or from on_conflict().
C13_ConflictStrategyValid ==
    (kind = "insert" /\ last.op = "build" /\ last.ok)
        => \A i \in 1..Len(last.value[2]) :
              last.value[2][i] = "OR"
                  => last.value[2][i + 2] \in
                         {"IGNORE", "REPLACE", "ROLLBACK", "ABORT", "FAIL"}

\* C14: on a Select builder with a bound table, where(group) and limit(n)
\* succeed, and the build that follows one single-condition group and
\* limit(n) gives "SELECT <projection> FROM T WHERE col op ? LIMIT n" with the
\* group's value as the parameter list.
C14_SelectWhereLimit ==
    (kind = "select" /\ Truthy(_table) /\ \A i \in 1..Len(_columns) : IsStr(_columns[i]))
        => /\ last.op \in {"where", "limit"} => last.ok
           /\ (prev.op = "limit" /\ last.op = "build")
                 => /\ last.ok
                    /\ \E g \in Groups :
                          LET w == g.conditions[1]
                              projection ==
                                  IF _columns = <<>> THEN <<"*">>
                                  ELSE Join(<<",", " ">>,
                                            [i \in 1..Len(_columns) |-> TextOf(_columns[i])])
                          IN last.value =
                                 PairV(<<"SELECT", " ">> \o projection
                                       \o <<" ", "FROM", " ">> \o TextOf(_table)
                                       \o <<" ", "WHERE", " ">> \o w.column \o <<" ">>
                                       \o Format(w.operator) \o <<" ", "?", " ", "LIMIT", " ">>
                                       \o Format(clause_builder.attrs.limit),
                                       g.params)

\* C15: a Select builder with a bound table renders the projection "*" for an
\* empty column list and the columns joined by ", " otherwise, and its build
\* gives a text that starts with "SELECT <projection> FROM <table>".
C15_SelectProjection ==
    (kind = "select" /\ Truthy(_table) /\ \A i \in 1..Len(_columns) : IsStr(_columns[i]))
        => LET projection ==
                   IF _columns = <<>> THEN <<"*">>
                   ELSE Join(<<",", " ">>,
                             [i \in 1..Len(_columns) |-> TextOf(_columns[i])])
               start == <<"SELECT", " ">> \o projection \o <<" ", "FROM", " ">>
                        \o TextOf(_table)
           IN /\ join_columns(_columns).text = projection
              /\ last.op = "build"
                    => /\ last.ok
                       /\ SubSeq(last.value[2], 1, Len(start)) = start

\* C16: every join() call on a Select builder succeeds, appends the fragment
\* "<JOIN TYPE> JOIN <table> ON <on_clause>" to the joins and sets the dirty
\* flag; a built text ends with the join fragments in call order.
C16_JoinAppends ==
    [][/\ last'.op = "join" =>
             /\ last'.ok
             /\ _state_changed'
             /\ _joins' # NoneV
             /\ \E join_type \in {<<"INNER">>, <<"LEFT">>} :
                   _joins'[2] = Append(IF _joins = NoneV THEN <<>> ELSE _joins[2],
                                       join_type \o <<" ", "JOIN", " ", "u", " ",
                                                      "ON", " ", "x">>)
       /\ (kind = "select" /\ last'.op = "build" /\ last'.ok /\ _joins # NoneV)
             => LET tail == Join(<<" ">>, _joins[2])
                    text == last'.value[2]
                IN SubSeq(text, Len(text) - Len(tail) + 1, Len(text)) = tail]_vars

\* C17: an Update builder constructed with a table and k column/value pairs
\* holds the k columns and the k values in matching order, and its first build
\* gives "UPDATE t SET c1 = ?, .., ck = ?" followed by a blank and the clause
\* fragment, with the k values as the parameter list.
C17_UpdateRendersData ==
    kind = "update"
        => /\ last.op = "init"
                => /\ last.ok
                   /\ \E d \in DataArgs :
                         /\ _columns = [i \in 1..Len(d) |-> StrV(d[i][1])]
                         /\ _params = [i \in 1..Len(d) |-> d[i][2]]
           /\ (prev.op = "init" /\ last.op = "build" /\ Truthy(_table)
                 /\ clause_builder.ref = "object" /\ clause_builder.attrs.set)
                => /\ last.ok
                   /\ last.value =
                          PairV(<<"UPDATE", " ">> \o TextOf(_table) \o <<" ", "SET", " ">>
                                \o Join(<<",", " ">>,
                                        [i \in 1..Len(_columns) |->
                                            TextOf(_columns[i]) \o <<" ", "=", " ", "?">>])
                                \o <<" ">> \o clause_fragment(clause_builder).text,
                                _params)

\* C18: the first build of a Delete builder that the factory made with a
\* valid table and nothing else gives "DELETE FROM <table>" followed by a
\* blank and an empty clause fragment, with an empty parameter list.
C18_DeleteBuilds ==
    (kind = "delete" /\ clause_builder.ref = "none"
       /\ IsStr(_table) /\ TABLE_NAME_REGEX(TextOf(_table))
       /\ prev.op = "init" /\ last.op = "build")
        => /\ last.ok
           /\ last.value = PairV(<<"DELETE", " ", "FROM", " ">> \o TextOf(_table) \o <<" ">>,
                                 <<>>)

\* The keywords that open the segments, in the order the claim gives
SegmentKeywords == <<"WHERE", "GROUP", "HAVING", "ORDER", "LIMIT", "OFFSET">>

\* C19: the text build_query_clauses() of a clause builder returns holds each
\* segment keyword at most once and in the order WHERE, GROUP BY, HAVING,
\* ORDER BY, LIMIT, OFFSET, whatever calls set the state; a segment is there
\* only when its state is non-empty or non-null (HAVING only inside GROUP BY);
\* segments are separated by exactly one blank.
C19_SegmentOrder ==
    (qcb_last.op = "build" /\ qcb_last.ok)
        => LET text == qcb_last.text
               has(k) == Contains(text, k)
           IN /\ \A i \in 1..6 : Count(text, SegmentKeywords[i]) <= 1
              /\ \A i \in 1..6 : \A j \in (i + 1)..6 :
                    (has(SegmentKeywords[i]) /\ has(SegmentKeywords[j]))
                        => Find(text, SegmentKeywords[i]) < Find(text, SegmentKeywords[j])
              /\ has("WHERE") => (qcb.where_conditions # NoneV
                                    /\ qcb.where_conditions[2] # <<>>)
              /\ has("GROUP") => qcb.group_by # <<>>
              /\ has("HAVING") => (qcb.having # NoneV /\ has("GROUP"))
              /\ has("ORDER") => qcb.order_by # <<>>
              /\ has("LIMIT") => qcb.limit # NoneV
              /\ has("OFFSET") => qcb.offset # NoneV
              /\ text # <<>> => (text[1] # " " /\ text[Len(text)] # " ")
              /\ \A i \in 1..(Len(text) - 1) : ~(text[i] = " " /\ text[i + 1] = " ")
              /\ \A i \in 2..Len(text) :
                    (\E k \in 1..6 : text[i] = SegmentKeywords[k]) => text[i - 1] = " "

\* C19 witness: a built fragment holds all six keywords, the order_by, group_by
\* and having state having been set after the limit and the offset.
C19_Witness ==
    /\ qcb_last.op = "build" /\ qcb_last.ok
    /\ \A i \in 1..6 : Contains(qcb_last.text, SegmentKeywords[i])
    /\ Len(qcb.where_conditions[2]) = 2

\* C20: add(kind, ...) with a kind other than where, having, limit, order_by
\* and group_by raises ValueError whatever the argument is, a Where or a
\* WhereGroup included, and leaves the clause state as it was.
C20_InvalidKindRejected ==
    [][(qcb_last'.op = "add"
          /\ qcb_last'.type_ \notin {"where", "having", "limit", "order_by", "group_by"})
         => /\ ~qcb_last'.ok
            /\ qcb_last'.exc = "ValueError"
            /\ qcb' = qcb]_vars

C22_WhereBuildForms ==
    \A i \in 1..Len(conditions) :
        LET w == conditions[i]
            start == TextOf(w.logical_operator) \o <<" ">> \o w.column
        IN IF w.operator \notin {NoneV, StrV(<<>>)}
           THEN Where_build(w) = start \o <<" ">> \o TextOf(w.operator) \o <<" ", "?">>
           ELSE IF w.param = NoneV
           THEN Where_build(w) = start \o <<" ", "IS", " ", "NULL">>
           ELSE Where_build(w) = start \o <<" ", "=", " ", "?">>

\* C22 witness: the group holds a condition with an operator and a condition
\* with neither operator nor parameter.
C22_Witness ==
    /\ Len(conditions) = 2
    /\ conditions[1].operator = StrV(<<">">>)
    /\ conditions[2].operator = NoneV /\ conditions[2].param = NoneV
    /\ Where_build(conditions[2]) = <<"OR", " ", "age", " ", "IS", " ", "NULL">>

\* The fragments of the group's conditions in insertion order, joined by one
\* blank, without the logical operator and the blank that open the first one
Fragments ==
    LET joined == Join(<<" ">>, [i \in 1..Len(conditions) |-> Where_build(conditions[i])])
    IN SubSeq(joined, 3, Len(joined))

RECURSIVE CombinedGroups(_)
CombinedGroups(wc) ==
    IF Len(wc) = 1 THEN WhereGroup_build(wc[1].conditions)
    ELSE CombinedGroups(SubSeq(wc, 1, Len(wc) - 1))
         \o <<" ">> \o TextOf(wc[Len(wc)].logical_operator) \o <<" ">>
         \o WhereGroup_build(wc[Len(wc)].conditions)

\* C24: the WHERE segment of a clause builder that holds several groups joins
\* each group after the first to the preceding ones by that group's own
\* logical operator, the one its constructor was given.
C24_GroupOperatorCombines ==
    (qcb_last.op = "build" /\ qcb_last.ok /\ qcb.where_conditions # NoneV)
        => (Len(qcb.where_conditions[2]) >= 2
              => LET expected == <<"WHERE", " ">> \o CombinedGroups(qcb.where_conditions[2])
                 IN SubSeq(qcb_last.text, 1, Len(expected)) = expected)

\* C25: add_param and extend change the parameter list and leave what
\* get_cached() returns as it was; a build that renders replaces the memo pair
\* by the new text and the parameters of that moment; after reset(), which
\* runs reset_cache(), get_cached() returns None.
C25_CacheSnapshot ==
    [][/\ last'.op \in {"add_param", "extend"}
             => /\ _params' # _params
                /\ get_cached(_cached_query', _cached_params')
                       = get_cached(_cached_query, _cached_params)
       /\ (last'.op = "build" /\ last'.ok /\ last'.rendered)
             => /\ get_cached(_cached_query', _cached_params')
                       = PairV(last'.value[2], _params)
                /\ get_cached(_cached_query', _cached_params') = last'.value
       /\ last'.op = "reset"
             => get_cached(_cached_query', _cached_params') = NoneV]_vars

\* C25 witness: a parameter was added after a build, and the memo pair still
\* holds the shorter parameter list of the build.
C25_Witness ==
    /\ prev.op = "build" /\ prev.ok
    /\ last.op = "add_param"
    /\ get_cached(_cached_query, _cached_params) = prev.value
    /\ Len(_params) = Len(prev.value[3]) + 1
    /\ Len(prev.value[3]) >= 1

-----------------------------------------------------------------------------
(* Claims on the TableCreator *)

DefinedColumns == {tc_columns[i].name : i \in 1..Len(tc_columns)}

\* C26: the primary-key column (if set), every unique-constrained column and
\* every foreign-key source column is a column defined on the table.
C26_ConstraintColumnsDefined ==
    /\ tc_primary_key # NoneV => TextOf(tc_primary_key) \in DefinedColumns
    /\ tc_unique \subseteq DefinedColumns
    /\ \A i \in 1..Len(tc_foreign_keys) : tc_foreign_keys[i].column \in DefinedColumns

IdColumn == [name |-> <<"i", "d">>,
             definition |-> <<"i", "d", " ", "INTEGER", " ", "NOT", " ", "NULL">>]
CreatedAtColumn ==
    [name |-> <<"c", "r", "e", "a", "t", "e", "d", "_", "a", "t">>,
     definition |-> <<"c", "r", "e", "a", "t", "e", "d", "_", "a", "t", " ", "TIMESTAMP",
                      " ", "DEFAULT", " ", "CURRENT_TIMESTAMP">>]
UpdatedAtColumn ==
    [name |-> <<"u", "p", "d", "a", "t", "e", "d", "_", "a", "t">>,
     definition |-> <<"u", "p", "d", "a", "t", "e", "d", "_", "a", "t", " ", "TIMESTAMP",
                      " ", "DEFAULT", " ", "CURRENT_TIMESTAMP">>]
DeletedAtColumn ==
    [name |-> <<"d", "e", "l", "e", "t", "e", "d", "_", "a", "t">>,
     definition |-> <<"d", "e", "l", "e", "t", "e", "d", "_", "a", "t", " ", "TIMESTAMP",
                      " ", "DEFAULT", " ", "NULL">>]

\* C27: a TableCreator constructed with a valid name holds, in this order, the
\* column id (INTEGER NOT NULL, the primary key), created_at and updated_at
\* (TIMESTAMP DEFAULT CURRENT_TIMESTAMP) and deleted_at (TIMESTAMP DEFAULT
\* NULL), each only when meta_columns and its own flag are true.
C27_DefaultColumns ==
    (tc_last.op = "init" /\ tc_last.ok) =>
        LET f == tc_last.flags[2] IN
        /\ tc_columns =
               (IF f.meta_columns /\ f.primary THEN <<IdColumn>> ELSE <<>>)
               \o (IF f.meta_columns /\ f.created_at THEN <<CreatedAtColumn>> ELSE <<>>)
               \o (IF f.meta_columns /\ f.updated_at THEN <<UpdatedAtColumn>> ELSE <<>>)
               \o (IF f.meta_columns /\ f.deleted_at THEN <<DeletedAtColumn>> ELSE <<>>)
        /\ tc_primary_key =
               (IF f.meta_columns /\ f.primary THEN StrV(<<"i", "d">>) ELSE NoneV)
C27_Witness ==
    /\ tc_last.op = "init" /\ tc_last.ok
    /\ \A k \in DOMAIN tc_last.flags[2] : tc_last.flags[2][k]
    /\ tc_columns = <<IdColumn, CreatedAtColumn, UpdatedAtColumn, DeletedAtColumn>>
    /\ tc_primary_key = StrV(<<"i", "d">>)

\* C28: add_column for a name the table holds fails with the duplicate-column
\* error and changes no column when override is false; with override true the
\* duplicate-column error is not raised, and the call that passes the other
\* tests replaces the definition at its place, the table holding one column
\* of that name.
C28_DuplicateColumn ==
    [][(tc_last'.op = "add_column" /\ HasColumn(tc_columns, TextOf(tc_last'.name))) =>
          LET name == TextOf(tc_last'.name) IN
          IF ~tc_last'.override
          THEN /\ ~tc_last'.ok
               /\ tc_last'.exc = "ValueError"
               /\ tc_last'.msg = "already exists"
               /\ tc_columns' = tc_columns
          ELSE /\ tc_last'.msg # "already exists"
               /\ (tc_last'.data_type \in DataType /\ tc_last'.default = NoneV)
                      => tc_last'.ok
               /\ tc_last'.ok =>
                      /\ Len(tc_columns') = Len(tc_columns)
                      /\ Cardinality({i \in 1..Len(tc_columns') :
                                         tc_columns'[i].name = name}) = 1
                      /\ \A i \in 1..Len(tc_columns) :
                            IF tc_columns[i].name = name
                            THEN /\ tc_columns'[i].name = name
                                 /\ tc_columns'[i].definition =
                                        name \o <<" ">> \o Format(tc_last'.data_type)
                                        \o (IF tc_last'.allow_nulls THEN <<>>
                                            ELSE <<" ", "NOT", " ", "NULL">>)
                            ELSE tc_columns'[i] = tc_columns[i]]_vars
C28_Witness ==
    /\ tc_last.op = "add_column" /\ tc_last.ok /\ tc_last.override
    /\ \E i \in 1..Len(tc_columns) :
          /\ tc_columns[i].name = <<"i", "d">>
          /\ tc_columns[i].definition = <<"i", "d", " ", "TEXT">>
    /\ Len(tc_columns) = 4

ValidColumnNames ==
    \A i \in 1..Len(tc_columns) :
        /\ TABLE_NAME_REGEX(tc_columns[i].name)
        /\ UpperName(tc_columns[i].name) \notin all_keywords

\* C29: add_column fails, adding no column, when the name does not match the
\* identifier pattern or its upper-cased form is a keyword of SQLKeywords;
\* every column name the table holds matches the pattern and is no keyword.
C29_ColumnNamesValid ==
    [][/\ (/\ tc_last'.op = "add_column"
           /\ \/ ~TABLE_NAME_REGEX(TextOf(tc_last'.name))
              \/ UpperName(TextOf(tc_last'.name)) \in all_keywords)
          => (~tc_last'.ok /\ tc_last'.exc = "ValueError" /\ tc_columns' = tc_columns)
       /\ ValidColumnNames
       /\ ValidColumnNames']_vars
C29_Witness ==
    /\ tc_last.op = "add_column" /\ ~tc_last.ok
    /\ tc_last.name = StrV(<<"S", "e", "t">>)
    /\ tc_last.msg = "reserved keyword"
    /\ \E i \in 1..Len(tc_columns) : tc_columns[i].name = <<"n">>

\* The native type of a default the table of the declared types allows
NativeCompatible(data_type, default) ==
    CASE data_type = EnumV("INTEGER") -> default[1] = "int"
      [] data_type \in {EnumV("TEXT"), EnumV("TIMESTAMP")} -> default[1] = "str"
      [] data_type = EnumV("REAL") -> default[1] = "float"
      [] data_type = EnumV("BLOB") -> default[1] \in {"bytes", "str"}
      [] data_type = EnumV("NULL") -> default[1] = "none"

\* C30: add_column with a default that is not None fails, adding no column,
\* whenever the native type of the default is not the one the declared type
\* allows (INTEGER: whole number, TEXT and TIMESTAMP: text, REAL: floating
\* point, BLOB: bytes or text, NULL: absence).
C30_DefaultTypeChecked ==
    (/\ tc_last.op = "add_column"
     /\ tc_last.default # NoneV
     /\ tc_last.data_type \in DataType
     /\ ~NativeCompatible(tc_last.data_type, tc_last.default))
        => ~tc_last.ok

\* The items between the parentheses of CREATE TABLE, the unique constraints
\* in the order given
CreateItems(order) ==
    [i \in 1..Len(tc_columns) |-> tc_columns[i].definition]
    \o (IF tc_primary_key = NoneV THEN << >>
        ELSE << <<"PRIMARY", " ", "KEY", " ", "(">> \o TextOf(tc_primary_key) \o <<")">> >>)
    \o [i \in 1..Len(order) |-> <<"UNIQUE", " ", "(">> \o order[i] \o <<")">>]
    \o [i \in 1..Len(tc_foreign_keys) |->
           <<"FOREIGN", " ", "KEY", " ", "(">> \o tc_foreign_keys[i].column
           \o <<")", " ", "REFERENCES", " ">> \o tc_foreign_keys[i].ref_table
           \o <<" ", "(">> \o tc_foreign_keys[i].ref_column \o <<")">>]

CreateHeader ==
    <<"CREATE", " ">>
    \o (IF tc_metadata.temporary THEN <<"TEMPORARY", " ">> ELSE <<>>)
    \o <<"TABLE", " ">>
    \o (IF tc_metadata.if_not_exists THEN <<"IF NOT EXISTS", " ">> ELSE <<>>)
    \o TextOf(tc_name) \o <<" ">>

-----------------------------------------------------------------------------
(* Claims on the error handling *)

\* C32: a call of a method decorated with error_handler("logging") runs the
\* body of the method at most once, whatever the body raises.
C32_BodyRunsOnce ==
    (/\ d_last.op = "call"
     /\ d_last.strategy_name = "logging"
     /\ d_registry["logging"] # NoneV
     /\ d_registry["logging"][1] = "logging")
        => d_last.invocations <= 1

\* The strategies of the handler that are enabled and can handle the error
EligibleStrategies(error) ==
    {eh_strategies[i] : i \in {j \in 1..Len(eh_strategies) :
                                  /\ can_handle(eh_strategies[j], error)
                                  /\ eh_enabled[eh_strategies[j]]}}

\* C33: when the method of a class wrapped by catch raises and an enabled
\* strategy of the handler can handle the error and recovers from it, the
\* wrapped call returns the recovered response of such a strategy.
C33_RecoveredResponseReturned ==
    (/\ eh_last.op = "catch"
     /\ eh_last.handled
     /\ \E s \in EligibleStrategies(eh_last.error) :
           strategy_handle(s, eh_last.error, eh_last.call).recovered)
        => /\ eh_last.ok
           /\ \E s \in EligibleStrategies(eh_last.error) :
                 LET h == strategy_handle(s, eh_last.error, eh_last.call) IN
                 h.recovered /\ eh_last.value = h.response

\* C34: handle_error that finds no recovering strategy raises the original
\* error when the policy (the reraise keyword, else config.re_raise) is true
\* and returns None otherwise; ErrorConfig(re_raise=False) gives a
\* configuration whose re_raise is false.
C34_ReraisePolicy ==
    /\ (eh_last.handled /\ ~eh_last.recovered) =>
          IF (IF eh_last.reraise = Absent THEN eh_re_raise
              ELSE eh_last.reraise = BoolV("True"))
          THEN ~eh_last.ok /\ eh_last.exc = eh_last.error /\ eh_last.msg = "original"
          ELSE eh_last.ok /\ eh_last.value = NoneV
    /\ (eh_last.op = "configure" /\ eh_last.re_raise_arg = BoolV("False")) => ~eh_re_raise

\* The list with the strategy put behind every entry whose priority is not
\* greater: a stable insertion
RECURSIVE InsertByPriority(_, _)
InsertByPriority(sorted, s) ==
    IF Len(sorted) = 0 THEN <<s>>
    ELSE IF eh_priority[sorted[Len(sorted)]] <= eh_priority[s] THEN Append(sorted, s)
    ELSE Append(InsertByPriority(SubSeq(sorted, 1, Len(sorted) - 1), s),
                sorted[Len(sorted)])
RECURSIVE ByPriority(_)
ByPriority(strategies) ==
    IF Len(strategies) = 0 THEN <<>>
    ELSE InsertByPriority(ByPriority(SubSeq(strategies, 1, Len(strategies) - 1)),
                          strategies[Len(strategies)])

\* The strategies a call has to attempt: those enabled and able to handle the
\* error, by ascending priority, up to the first whose handle recovers (or
\* raises)
ExpectedAttempts(error, call) ==
    LET ordered == ByPriority(eh_strategies)
        eligible == SelectSeq(ordered,
                              LAMBDA s : can_handle(s, error) /\ eh_enabled[s])
        stops == {i \in 1..Len(eligible) :
                     LET h == strategy_handle(eligible[i], error, call) IN
                     h.recovered \/ h.raised}
    IN IF stops = {} THEN eligible
       ELSE SubSeq(eligible, 1, CHOOSE i \in stops : \A j \in stops : i <= j)

\* C35: handle_error attempts the strategies that are enabled and can handle
\* the error in ascending order of priority and attempts none after the first
\* that reports recovery.
C35_PriorityOrder ==
    eh_last.handled => eh_last.invoked = ExpectedAttempts(eh_last.error, eh_last.call)

NoDuplicates(strategies) ==
    \A i, j \in 1..Len(strategies) : strategies[i] = strategies[j] => i = j

\* C36: add_strategy of a strategy the list holds raises
\* StrategyAlreadyInUseError when exists_ok is false and does nothing when
\* exists_ok is true; the list never holds a strategy twice.
C36_NoDuplicateStrategy ==
    [][/\ (eh_last'.op = "add_strategy" /\ InList(eh_strategies, eh_last'.strategy)) =>
             /\ eh_strategies' = eh_strategies
             /\ IF eh_last'.exists_ok THEN eh_last'.ok
                ELSE ~eh_last'.ok /\ eh_last'.exc = "StrategyAlreadyInUseError"
       /\ NoDuplicates(eh_strategies)
       /\ NoDuplicates(eh_strategies')]_vars
C36_Witness ==
    /\ eh_last.op = "add_strategy" /\ ~eh_last.ok
    /\ eh_last.exc = "StrategyAlreadyInUseError"
    /\ InList(eh_strategies, eh_last.strategy)
    /\ Len(eh_strategies) = 2

\* C37: RetryStrategy.handle with retries r calls the function at most r
\* times, returns the result of the first call that succeeds, raises the
\* exception of the last call when none succeeds, and never returns without a
\* call that succeeded.
C37_RetryBounded ==
    d_last.op = "retry_handle" =>
        LET r == d_registry["retry"][2]
            n == d_last.calls
        IN
        /\ n <= r
        /\ d_last.ok =>
              /\ n >= 1
              /\ d_last.outcomes[n] = "return"
              /\ d_last.value = ResultV(n)
              /\ \A j \in 1..(n - 1) : d_last.outcomes[j] # "return"
        /\ ~d_last.ok =>
              /\ n = r
              /\ d_last.exc = ExcV(d_last.outcomes[n], n)

-----------------------------------------------------------------------------
(* reset, failing builds and the Insert column count *)

\* C38: after reset() the parameter list is empty, and the build that follows
\* it returns as many parameters as its text has "?" placeholders.
C38_ResetEmptiesParams ==
    /\ (last.op = "reset" /\ last.ok) => _params = <<>>
    /\ (prev.op = "reset" /\ last.op = "build" /\ last.ok)
          => /\ last.value[3] = <<>>
             /\ Len(last.value[3]) = Count(last.value[2], "?")

\* C39: a build_query_clauses() call that raises (no table bound, or the
\* render raising) leaves the memo slot, the parameter list, the table binding
\* and the dirty flag as they were before the call.
C39_FailedBuildChangesNothing ==
    [][(last'.op = "build" /\ ~last'.ok)
          => /\ _cached_query' = _cached_query
             /\ _cached_params' = _cached_params
             /\ _params' = _params
             /\ _table' = _table
             /\ _state_changed' = _state_changed]_vars

\* C39 witness: a build on a builder with a table and a bound parameter has
\* failed in the render, and the builder is still dirty.
C39_Witness ==
    /\ last.op = "build" /\ ~last.ok
    /\ last.msg = "Query building failed"
    /\ Truthy(_table) /\ _params # <<>> /\ _state_changed

\* C40: after a successful build of an Insert builder the number of columns
\* of the rendered column list, the number of "?" placeholders and the length
\* of the returned parameter list are the same.
C40_InsertColumnsMatchParams ==
    (kind = "insert" /\ last.op = "build" /\ last.ok)
        => /\ Len(_columns) = Count(last.value[2], "?")
           /\ Count(last.value[2], "?") = Len(last.value[3])

====
